---- MODULE Spec2Model ----
(***************************************************************************)
(* Serial framing protocol: CRC-16, framing codec, raw packet parser,      *)
(* packet classifier and link engine (connection state machine).           *)
(***************************************************************************)
EXTENDS Integers, Sequences, FiniteSets, TLC

(***************************************************************************)
(* Bounds of the model.                                                    *)
(***************************************************************************)
\* capacity of the caller supplied receive buffer (PacketBuffer::capacity)
Capacity == 3
\* frames in flight per direction on the two-peer link
MaxWire == 2
\* write_packet calls accepted per peer and session
MaxSend == 2
\* connect() calls on the two-peer link, both peers together
MaxConnect == 3
\* write_packet calls of the sender on the lossy link
MaxSeries == 65
\* frames in flight per direction on the lossy link
MaxLossyWire == 1
\* frames the lossy link loses
MaxLost == 1
MaxExcess == 4
MaxPayload == 2
MaxCrcLen == 2
MaxNext == 10
\* bytes fed to the parser of packet.rs
MaxStream == 5

(***************************************************************************)
(* Program constants.                                                      *)
(***************************************************************************)
SOF == 126
ESC == 125
ESC_FLIP == 32
CRC_INIT == 65535
CRC_GOOD == 61624
SEQ_INIT == 0
SEQ_MASK == 63
FRAME_TYPE_MASK == 192
USR == 0
RTX == 64
NAK == 128
SYN == 192
SYN0 == 0
SYN1 == 1
SYN2 == 2
DIS == 3
CRC_SIZE == 2

(***************************************************************************)
(* Machine arithmetic on u8 / u16 values.                                  *)
(***************************************************************************)
\* bit i (given as its weight w) of a ^ b and of a & b, in place
XorBit(a, b, w) == (((a \div w) + (b \div w)) % 2) * w
AndBit(a, b, w) == (((a \div w) % 2) * ((b \div w) % 2)) * w

\* a ^ b and a & b on bytes (functions, so that each operand is evaluated once)
Xor8 ==
    [a \in 0..255 |-> [b \in 0..255 |->
        XorBit(a, b, 1) + XorBit(a, b, 2) + XorBit(a, b, 4) + XorBit(a, b, 8)
        + XorBit(a, b, 16) + XorBit(a, b, 32) + XorBit(a, b, 64) + XorBit(a, b, 128)]]
And8 ==
    [a \in 0..255 |-> [b \in 0..255 |->
        AndBit(a, b, 1) + AndBit(a, b, 2) + AndBit(a, b, 4) + AndBit(a, b, 8)
        + AndBit(a, b, 16) + AndBit(a, b, 32) + AndBit(a, b, 64) + AndBit(a, b, 128)]]

\* a ^ b, a & b, a | b on values below 2^16
BitXor(a, b) == Xor8[a \div 256][b \div 256] * 256 + Xor8[a % 256][b % 256]
BitAnd(a, b) == And8[a \div 256][b \div 256] * 256 + And8[a % 256][b % 256]
BitOr(a, b) == a + b - BitAnd(a, b)

U8(x) == x % 256
U16(x) == x % 65536
\* !v on a u16
Not16(v) == 65535 - v

(***************************************************************************)
(* crc.rs                                                                  *)
(***************************************************************************)
\* Crc::accum: one step of the byte-mix recurrence
\* the statements of accum, one operator each: byte ^ (val & 0xff),
\* byte ^ (byte << 4) in 8 bits, and the new accumulator
accum_low(val, byte) == BitXor(byte, BitAnd(val, 255))
\* accum_shift with byte << 4 kept in 16 bits
accum_shift_wide(byte) == BitXor(byte, U16(byte * 16))
accum_shift(byte) == BitXor(byte, U8(byte * 16))
accum_mix(val, byte16) ==
    BitXor(BitXor(BitOr(U16(byte16 * 256), BitAnd(val \div 256, 255)),
                  byte16 \div 16),
           U16(byte16 * 8))
accum(val, byte) == accum_mix(val, accum_shift(accum_low(val, byte)))

\* Crc::accum_bytes
RECURSIVE accum_bytes(_, _)
accum_bytes(val, bytes) ==
    IF bytes = <<>> THEN val
    ELSE LET folded == accum(val, Head(bytes))
         IN  \* one turn of the loop is done before the next begins
             IF folded < 0 THEN folded
             ELSE accum_bytes(folded, Tail(bytes))

\* Crc::lsb / Crc::msb
lsb(val) == BitAnd(Not16(val), 255)
msb(val) == BitAnd(Not16(val) \div 256, 255)

\* accum_crc folding the high byte first
accum_crc_msb_first(val) ==
    LET crc == Not16(val)
    IN  accum(accum(val, BitAnd(crc \div 256, 255)), BitAnd(crc, 255))

\* Crc::accum_crc
accum_crc(val) ==
    LET crc == Not16(val)
    IN  accum(accum(val, BitAnd(crc, 255)), BitAnd(crc \div 256, 255))

(***************************************************************************)
(* Framing codec: the writer (WritePacket / PacketWriter default methods). *)
(* The writer state is the pair of the running CRC and the bytes written.  *)
(***************************************************************************)
\* write_escaped_byte on the high CRC byte of the writer's own accumulator
write_escaped_byte_msb(w) ==
    [crc |-> accum(w.crc, msb(w.crc)),
     bytes |-> IF msb(w.crc) = ESC \/ msb(w.crc) = SOF
               THEN w.bytes \o <<ESC, BitXor(msb(w.crc), ESC_FLIP)>>
               ELSE Append(w.bytes, msb(w.crc))]

\* write_escaped_byte without the escaping of SOF and ESC
write_escaped_byte_unescaped(w, byte) ==
    [crc |-> accum(w.crc, byte), bytes |-> Append(w.bytes, byte)]

\* write_escaped_byte: fold the byte into the CRC, write it escaped
write_escaped_byte(w, byte) ==
    [crc |-> accum(w.crc, byte),
     bytes |-> IF byte = ESC \/ byte = SOF
               THEN w.bytes \o <<ESC, BitXor(byte, ESC_FLIP)>>
               ELSE Append(w.bytes, byte)]

\* write_escaped_bytes
RECURSIVE write_escaped_bytes(_, _)
write_escaped_bytes(w, bytes) ==
    IF bytes = <<>> THEN w
    ELSE LET written == write_escaped_byte(w, Head(bytes))
         IN  \* one turn of the loop is done before the next begins
             IF written.bytes = <<>> THEN written
             ELSE write_escaped_bytes(written, Tail(bytes))

\* write_crc writing the two CRC bytes as they are
write_crc_unescaped(w) ==
    [crc |-> accum(accum(w.crc, lsb(w.crc)), msb(w.crc)),
     bytes |-> w.bytes \o <<lsb(w.crc), msb(w.crc)>>]

\* write_crc taking the high byte after the low byte has been folded in
write_crc_folded(w) ==
    write_escaped_byte_msb(write_escaped_byte(w, lsb(w.crc)))

\* write_crc: both CRC bytes are taken before either is written
write_crc(w) ==
    LET crc_lsb == lsb(w.crc)
        crc_msb == msb(w.crc)
    IN  write_escaped_byte(write_escaped_byte(w, crc_lsb), crc_msb)

\* write_packet_data: the bytes of one frame on the wire
write_packet_data(header, bytes) ==
    LET w0 == [crc |-> CRC_INIT, bytes |-> <<SOF>>]
        w1 == write_escaped_byte(w0, header)
        w2 == write_escaped_bytes(w1, bytes)
        w3 == write_crc(w2)
    IN  Append(w3.bytes, SOF)

(***************************************************************************)
(* Receive buffer (PacketBuffer): a byte sequence of bounded capacity.     *)
(***************************************************************************)
\* PacketBuffer::append: Ok stores the byte, Err leaves the buffer alone
append(buf, byte) ==
    IF Len(buf) < Capacity
    THEN [ok |-> TRUE, buf |-> Append(buf, byte)]
    ELSE [ok |-> FALSE, buf |-> buf]

\* remove_crc taking the first of the two bytes as the high byte
remove_crc_msb_first(buf) ==
    LET len == Len(buf)
    IN  IF len < CRC_SIZE
        THEN [crc |-> 0, buf |-> buf]
        ELSE [crc |-> BitOr(U16(buf[len - 1] * 256), buf[len]),
              buf |-> SubSeq(buf, 1, len - 2)]

\* PacketBuffer::remove_crc: LSB-first pull of the last two bytes
remove_crc(buf) ==
    LET len == Len(buf)
    IN  IF len < CRC_SIZE
        THEN [crc |-> 0, buf |-> buf]
        ELSE [crc |-> BitOr(U16(buf[len] * 256), buf[len - 1]),
              buf |-> SubSeq(buf, 1, len - 2)]

\* The buffers of packet.rs, Packet and UserPacket, hold len and data as the
\* PacketBuffer does; their capacity is the length of the array.
\* Packet::append and UserPacket::append (the two are the same code)
packet_append(buf, byte) ==
    IF Len(buf) < Capacity
    THEN [ok |-> TRUE, buf |-> Append(buf, byte)]
    ELSE [ok |-> FALSE, buf |-> buf]

\* Packet::remove_crc: (data[len + 1] << 8) | data[len] after len -= 2
packet_remove_crc(buf) ==
    LET len == Len(buf)
    IN  IF len < 2
        THEN [crc |-> 0, buf |-> buf]
        ELSE [crc |-> BitOr(U16(buf[len] * 256), buf[len - 1]),
              buf |-> SubSeq(buf, 1, len - 2)]

\* UserPacket::remove_crc: (data[len] << 8) | data[len + 1] after len -= 2
user_packet_remove_crc(buf) ==
    LET len == Len(buf)
    IN  IF len < 2
        THEN [crc |-> 0, buf |-> buf]
        ELSE [crc |-> BitOr(U16(buf[len - 1] * 256), buf[len]),
              buf |-> SubSeq(buf, 1, len - 2)]

(***************************************************************************)
(* Raw packet parser (rawpacket.rs).  A parser value is the record         *)
(* [header, crc, escape_state, frame_state]; the receive buffer is passed  *)
(* along with it.                                                          *)
(***************************************************************************)
\* RawParseResult / ParseResult values: the variant and the value it carries
Result(kind) == [kind |-> kind, val |-> 0]
CrcError(rcvd) == [kind |-> "CrcError", val |-> rcvd]
RawPacketReceived(header) == [kind |-> "RawPacketReceived", val |-> header]

\* RawPacketParser::new
NewParser ==
    [header |-> 0, crc |-> CRC_INIT, escape_state |-> "Normal", frame_state |-> "New"]

\* RawPacketParser::reset: CRC, escape state and buffer; not the frame state
reset(ps, buf) ==
    [ps |-> [ps EXCEPT !.crc = CRC_INIT, !.escape_state = "Normal"], buf |-> <<>>]

\* close_frame without the test of the length
close_frame_any_length(ps, buf) ==
    LET ps1 == [ps EXCEPT !.frame_state = "New"]
        rc == remove_crc(buf)
    IN  IF ps.crc # CRC_GOOD
        THEN [ps |-> ps1, buf |-> rc.buf, res |-> CrcError(rc.crc)]
        ELSE [ps |-> ps1, buf |-> rc.buf, res |-> RawPacketReceived(ps.header)]

\* close_frame leaving the parser in Collecting
close_frame_stays_collecting(ps, buf) ==
    LET rc == remove_crc(buf)
    IN  IF Len(buf) < CRC_SIZE
        THEN [ps |-> ps, buf |-> buf, res |-> Result("PacketTooSmall")]
        ELSE IF ps.crc # CRC_GOOD
        THEN [ps |-> ps, buf |-> rc.buf, res |-> CrcError(rc.crc)]
        ELSE [ps |-> ps, buf |-> rc.buf, res |-> RawPacketReceived(ps.header)]

\* the closing SOF of a frame (parse_u8, the Collecting branch)
close_frame(ps, buf) ==
    LET ps1 == [ps EXCEPT !.frame_state = "New"]
        rc == remove_crc(buf)
    IN  IF Len(buf) < CRC_SIZE
        THEN [ps |-> ps1, buf |-> buf, res |-> Result("PacketTooSmall")]
        ELSE IF ps.crc # CRC_GOOD
        THEN [ps |-> ps1, buf |-> rc.buf, res |-> CrcError(rc.crc)]
        ELSE [ps |-> ps1, buf |-> rc.buf, res |-> RawPacketReceived(ps.header)]

\* store_byte without the reset at the header of a new frame
store_byte_no_reset(ps, buf, byte) ==
    LET r == IF ps.frame_state = "New"
             THEN [ps |-> [ps EXCEPT !.header = byte, !.frame_state = "Collecting"],
                   buf |-> buf]
             ELSE LET a == append(buf, byte)
                  IN  IF a.ok THEN [ps |-> ps, buf |-> a.buf] ELSE reset(ps, buf)
    IN  [ps |-> [r.ps EXCEPT !.crc = accum(r.ps.crc, byte)],
         buf |-> r.buf, res |-> Result("MoreDataNeeded")]

\* a header or payload byte (parse_u8, after the escape and delimiter tests)
store_byte(ps, buf, byte) ==
    LET r == IF ps.frame_state = "New"
             THEN LET z == reset(ps, buf)
                  IN  [ps |-> [z.ps EXCEPT !.header = byte, !.frame_state = "Collecting"],
                       buf |-> z.buf]
             ELSE LET a == append(buf, byte)
                  IN  IF a.ok THEN [ps |-> ps, buf |-> a.buf] ELSE reset(ps, buf)
    IN  [ps |-> [r.ps EXCEPT !.crc = accum(r.ps.crc, byte)],
         buf |-> r.buf, res |-> Result("MoreDataNeeded")]

\* parse_u8 with ESC SOF ending the frame like a plain SOF
parse_u8_esc_sof_closes(ps, buf, byte) ==
    IF ps.escape_state = "Escaping"
    THEN LET ps1 == [ps EXCEPT !.escape_state = "Normal"]
         IN  IF byte = SOF
             THEN IF ps.frame_state = "Collecting"
                  THEN close_frame(ps1, buf)
                  ELSE [ps |-> ps1, buf |-> buf, res |-> Result("AbortedPacket")]
             ELSE store_byte(ps1, buf, BitXor(byte, ESC_FLIP))
    ELSE IF byte = SOF
    THEN IF ps.frame_state = "Collecting"
         THEN close_frame(ps, buf)
         ELSE [ps |-> ps, buf |-> buf, res |-> Result("MoreDataNeeded")]
    ELSE IF byte = ESC
    THEN [ps |-> [ps EXCEPT !.escape_state = "Escaping"], buf |-> buf,
          res |-> Result("MoreDataNeeded")]
    ELSE store_byte(ps, buf, byte)

\* parse_u8 with a SOF in New resetting the receive path
parse_u8_sof_resets(ps, buf, byte) ==
    IF ps.escape_state = "Escaping"
    THEN LET ps1 == [ps EXCEPT !.escape_state = "Normal"]
         IN  IF byte = SOF
             THEN LET z == reset([ps1 EXCEPT !.frame_state = "New"], buf)
                  IN  [ps |-> z.ps, buf |-> z.buf, res |-> Result("AbortedPacket")]
             ELSE store_byte(ps1, buf, BitXor(byte, ESC_FLIP))
    ELSE IF byte = SOF
    THEN IF ps.frame_state = "Collecting"
         THEN close_frame(ps, buf)
         ELSE LET z == reset(ps, buf)
              IN  [ps |-> z.ps, buf |-> z.buf, res |-> Result("MoreDataNeeded")]
    ELSE IF byte = ESC
    THEN [ps |-> [ps EXCEPT !.escape_state = "Escaping"], buf |-> buf,
          res |-> Result("MoreDataNeeded")]
    ELSE store_byte(ps, buf, byte)

\* RawPacketParser::parse_u8
parse_u8(ps, buf, byte) ==
    IF ps.escape_state = "Escaping"
    THEN LET ps1 == [ps EXCEPT !.escape_state = "Normal"]
         IN  IF byte = SOF
             THEN LET z == reset([ps1 EXCEPT !.frame_state = "New"], buf)
                  IN  [ps |-> z.ps, buf |-> z.buf, res |-> Result("AbortedPacket")]
             ELSE store_byte(ps1, buf, BitXor(byte, ESC_FLIP))
    ELSE IF byte = SOF
    THEN IF ps.frame_state = "Collecting"
         THEN close_frame(ps, buf)
         ELSE [ps |-> ps, buf |-> buf, res |-> Result("MoreDataNeeded")]
    ELSE IF byte = ESC
    THEN [ps |-> [ps EXCEPT !.escape_state = "Escaping"], buf |-> buf,
          res |-> Result("MoreDataNeeded")]
    ELSE store_byte(ps, buf, byte)

(***************************************************************************)
(* The raw packet parser of packet.rs (RawPacketParser<Driver>), which     *)
(* collects into a UserPacket.  A parser value is the same record as       *)
(* above; its results are RawPacketReceived, AbortedPacket and             *)
(* MoreDataNeeded.                                                         *)
(***************************************************************************)
\* RawPacketParser::reset (packet.rs)
packet_reset(ps, buf) ==
    [ps |-> [ps EXCEPT !.crc = CRC_INIT, !.escape_state = "Normal"], buf |-> <<>>]

\* parse_u8 of packet.rs from 'if self.frame_state == FrameState::New' on
packet_store_byte(ps, buf, byte) ==
    LET r == IF ps.frame_state = "New"
             THEN LET z == packet_reset(ps, buf)
                  IN  [ps |-> [z.ps EXCEPT !.header = byte, !.frame_state = "Collecting"],
                       buf |-> z.buf]
             ELSE LET a == packet_append(buf, byte)
                  IN  IF a.ok THEN [ps |-> ps, buf |-> a.buf] ELSE packet_reset(ps, buf)
    IN  [ps |-> [r.ps EXCEPT !.crc = accum(r.ps.crc, byte)],
         buf |-> r.buf, res |-> Result("MoreDataNeeded")]

\* RawPacketParser::parse_u8 (packet.rs): no branch tests for ESC, and none
\* sets the escape state to Escaping
packet_parse_u8(ps, buf, byte) ==
    IF ps.escape_state = "Escaping"
    THEN LET ps1 == [ps EXCEPT !.escape_state = "Normal"]
         IN  IF byte = SOF
             THEN [ps |-> [ps1 EXCEPT !.frame_state = "New"], buf |-> buf,
                   res |-> Result("AbortedPacket")]
             ELSE packet_store_byte(ps1, buf, BitXor(byte, ESC_FLIP))
    ELSE IF byte = SOF
    THEN IF ps.frame_state = "Collecting"
         THEN [ps |-> [ps EXCEPT !.frame_state = "New"], buf |-> buf,
               res |-> RawPacketReceived(ps.header)]
         ELSE [ps |-> ps, buf |-> buf, res |-> Result("MoreDataNeeded")]
    ELSE packet_store_byte(ps, buf, byte)

(***************************************************************************)
(* Packet classifier (PacketParser): header byte to packet variant.        *)
(***************************************************************************)
NoPacket == [type |-> "None", seq |-> 0]
Packet(type, seq) == [type |-> type, seq |-> seq]

\* Option<variant> of c_like_enum's from_u8
Some(variant) == [some |-> TRUE, variant |-> variant]
None == [some |-> FALSE, variant |-> "None"]

\* c_like_enum! { FrameType { USR, RTX, NAK, SYN } }: FrameType::from_u8
FrameType_from_u8(value) ==
    IF value = USR THEN Some("USR")
    ELSE IF value = RTX THEN Some("RTX")
    ELSE IF value = NAK THEN Some("NAK")
    ELSE IF value = SYN THEN Some("SYN")
    ELSE None

\* from_u8 looking at the two low bits only
SeqSyn_from_u8_low_bits(value) ==
    IF value % 4 = SYN0 THEN Some("SYN0")
    ELSE IF value % 4 = SYN1 THEN Some("SYN1")
    ELSE IF value % 4 = SYN2 THEN Some("SYN2")
    ELSE Some("DIS")

\* c_like_enum! { SeqSyn { SYN0, SYN1, SYN2, DIS } }: SeqSyn::from_u8
SeqSyn_from_u8(value) ==
    IF value = SYN0 THEN Some("SYN0")
    ELSE IF value = SYN1 THEN Some("SYN1")
    ELSE IF value = SYN2 THEN Some("SYN2")
    ELSE IF value = DIS THEN Some("DIS")
    ELSE None

\* the packet variant of a SeqSyn, none for None
syn_variant(kind) ==
    IF ~kind.some THEN NoPacket
    ELSE IF kind.variant = "SYN0" THEN Packet("Syn0", 0)
    ELSE IF kind.variant = "SYN1" THEN Packet("Syn1", 0)
    ELSE IF kind.variant = "SYN2" THEN Packet("Syn2", 0)
    ELSE Packet("Disconnect", 0)

\* SeqSyn::from_u8 followed by the mapping to the variant
SynPacket(low) == syn_variant(SeqSyn_from_u8(low))

\* the packet variant of a FrameType and the low six bits
frame_variant(type, low) ==
    IF ~type.some THEN NoPacket
    ELSE IF type.variant = "USR" THEN Packet("USR", low)
    ELSE IF type.variant = "RTX" THEN Packet("RTX", low)
    ELSE IF type.variant = "NAK" THEN Packet("NAK", low)
    ELSE SynPacket(low)

\* the variant a validated header stands for
classify(header) ==
    frame_variant(FrameType_from_u8(BitAnd(header, FRAME_TYPE_MASK)),
                  BitAnd(header, SEQ_MASK))

\* PacketParser::parse_byte: a validated header becomes PacketReceived with its
\* variant, or MoreDataNeeded when the header names no variant
packet_type_result(r, pkt) ==
    IF r.res.kind = "RawPacketReceived"
    THEN [ps |-> r.ps, buf |-> r.buf, pkt |-> pkt,
          res |-> IF pkt.type = "None" THEN Result("MoreDataNeeded")
                  ELSE Result("PacketReceived")]
    ELSE [ps |-> r.ps, buf |-> r.buf, pkt |-> NoPacket, res |-> r.res]
classified(r) == packet_type_result(r, classify(r.res.val))
parser_parse_byte(ps, buf, byte) == classified(parse_u8(ps, buf, byte))

\* PacketParser::reset: the raw parser's reset; the receive buffer stays with
\* the caller, who hands it in with each byte
parser_reset(ps) == reset(ps, <<>>).ps

(***************************************************************************)
(* Link engine (lib.rs).  A Transmitter value is the record                *)
(* [connect_state, rx_seq, tx_seq]; a handler returns the new value and    *)
(* the frames it wrote to the writer, in order.                            *)
(***************************************************************************)
\* Transmitter::new
NewTransmitter ==
    [connect_state |-> "Disconnected", rx_seq |-> SEQ_INIT, tx_seq |-> SEQ_INIT]

\* Transmitter::clear_history (a stub in the source)
clear_history(t) == t

\* Transmitter::reset
tx_reset(t) ==
    clear_history([t EXCEPT !.connect_state = "Disconnected",
                            !.rx_seq = SEQ_INIT, !.tx_seq = SEQ_INIT])

\* next_frame_seq without the mask
next_frame_seq_unmasked(seq) == U8(seq + 1)

\* Transmitter::next_frame_seq
next_frame_seq(seq) == BitAnd(U8(seq + 1), SEQ_MASK)

\* Transmitter::transmit_control_packet: one frame with an empty payload
transmit_control_packet(frame_type, seq) ==
    write_packet_data(BitOr(frame_type, BitAnd(seq, SEQ_MASK)), <<>>)

transmit_nak(seq) == transmit_control_packet(NAK, seq)
transmit_dis == transmit_control_packet(SYN, DIS)
transmit_syn0 == transmit_control_packet(SYN, SYN0)
transmit_syn1 == transmit_control_packet(SYN, SYN1)
transmit_syn2 == transmit_control_packet(SYN, SYN2)

\* Transmitter::transmit_history_from_seq (a stub in the source): no frame
transmit_history_from_seq(t, seq) == <<>>

\* handle_frame_usr_rtx with the NAK carrying the seq of the frame received
handle_frame_usr_rtx_nak_frame_seq(t, frame_type, seq) ==
    IF t.connect_state = "Disconnected"
    THEN [t |-> t, out |-> <<transmit_dis>>, res |-> Result("MoreDataNeeded")]
    ELSE IF t.connect_state = "SentSyn0"
    THEN [t |-> t, out |-> <<transmit_syn0>>, res |-> Result("MoreDataNeeded")]
    ELSE IF t.connect_state = "SentSyn1"
    THEN [t |-> t, out |-> <<transmit_syn1>>, res |-> Result("MoreDataNeeded")]
    ELSE IF seq # t.rx_seq
    THEN IF frame_type = USR
         THEN [t |-> t, out |-> <<transmit_nak(seq)>>,
               res |-> Result("MoreDataNeeded")]
         ELSE [t |-> t, out |-> <<>>, res |-> Result("MoreDataNeeded")]
    ELSE [t |-> [t EXCEPT !.rx_seq = next_frame_seq(t.rx_seq)], out |-> <<>>,
          res |-> Result("UserPacket")]

\* handle_frame_usr_rtx answering an out-of-sequence RTX frame with a NAK too
handle_frame_usr_rtx_nak_rtx(t, frame_type, seq) ==
    IF t.connect_state = "Disconnected"
    THEN [t |-> t, out |-> <<transmit_dis>>, res |-> Result("MoreDataNeeded")]
    ELSE IF t.connect_state = "SentSyn0"
    THEN [t |-> t, out |-> <<transmit_syn0>>, res |-> Result("MoreDataNeeded")]
    ELSE IF t.connect_state = "SentSyn1"
    THEN [t |-> t, out |-> <<transmit_syn1>>, res |-> Result("MoreDataNeeded")]
    ELSE IF seq # t.rx_seq
    THEN [t |-> t, out |-> <<transmit_nak(t.rx_seq)>>, res |-> Result("MoreDataNeeded")]
    ELSE [t |-> [t EXCEPT !.rx_seq = next_frame_seq(t.rx_seq)], out |-> <<>>,
          res |-> Result("UserPacket")]

\* handle_frame_usr_rtx without the test of the sequence number
handle_frame_usr_rtx_any_seq(t, frame_type, seq) ==
    IF t.connect_state = "Disconnected"
    THEN [t |-> t, out |-> <<transmit_dis>>, res |-> Result("MoreDataNeeded")]
    ELSE IF t.connect_state = "SentSyn0"
    THEN [t |-> t, out |-> <<transmit_syn0>>, res |-> Result("MoreDataNeeded")]
    ELSE IF t.connect_state = "SentSyn1"
    THEN [t |-> t, out |-> <<transmit_syn1>>, res |-> Result("MoreDataNeeded")]
    ELSE [t |-> [t EXCEPT !.rx_seq = next_frame_seq(t.rx_seq)], out |-> <<>>,
          res |-> Result("UserPacket")]

\* handle_frame_usr_rtx without the test of the connection state
handle_frame_usr_rtx_unguarded(t, frame_type, seq) ==
    IF seq # t.rx_seq
    THEN IF frame_type = USR
         THEN [t |-> t, out |-> <<transmit_nak(t.rx_seq)>>,
               res |-> Result("MoreDataNeeded")]
         ELSE [t |-> t, out |-> <<>>, res |-> Result("MoreDataNeeded")]
    ELSE [t |-> [t EXCEPT !.rx_seq = next_frame_seq(t.rx_seq)], out |-> <<>>,
          res |-> Result("UserPacket")]

\* handle_frame_usr_rtx accepting a packet without stepping rx_seq
handle_frame_usr_rtx_same_seq(t, frame_type, seq) ==
    IF t.connect_state = "Disconnected"
    THEN [t |-> t, out |-> <<transmit_dis>>, res |-> Result("MoreDataNeeded")]
    ELSE IF t.connect_state = "SentSyn0"
    THEN [t |-> t, out |-> <<transmit_syn0>>, res |-> Result("MoreDataNeeded")]
    ELSE IF t.connect_state = "SentSyn1"
    THEN [t |-> t, out |-> <<transmit_syn1>>, res |-> Result("MoreDataNeeded")]
    ELSE IF seq # t.rx_seq
    THEN IF frame_type = USR
         THEN [t |-> t, out |-> <<transmit_nak(t.rx_seq)>>,
               res |-> Result("MoreDataNeeded")]
         ELSE [t |-> t, out |-> <<>>, res |-> Result("MoreDataNeeded")]
    ELSE [t |-> t, out |-> <<>>, res |-> Result("UserPacket")]

\* Transmitter::handle_frame_usr_rtx
handle_frame_usr_rtx(t, frame_type, seq) ==
    IF t.connect_state = "Disconnected"
    THEN [t |-> t, out |-> <<transmit_dis>>, res |-> Result("MoreDataNeeded")]
    ELSE IF t.connect_state = "SentSyn0"
    THEN [t |-> t, out |-> <<transmit_syn0>>, res |-> Result("MoreDataNeeded")]
    ELSE IF t.connect_state = "SentSyn1"
    THEN [t |-> t, out |-> <<transmit_syn1>>, res |-> Result("MoreDataNeeded")]
    ELSE IF seq # t.rx_seq
    THEN IF frame_type = USR
         THEN [t |-> t, out |-> <<transmit_nak(t.rx_seq)>>,
               res |-> Result("MoreDataNeeded")]
         ELSE [t |-> t, out |-> <<>>, res |-> Result("MoreDataNeeded")]
    ELSE [t |-> [t EXCEPT !.rx_seq = next_frame_seq(t.rx_seq)], out |-> <<>>,
          res |-> Result("UserPacket")]

\* Transmitter::handle_frame_nak (a stub in the source)
handle_frame_nak(t, seq) == [t |-> t, out |-> <<>>]

\* handle_frame_syn0 with tx_seq left as it was
handle_frame_syn0_keeps_tx(t) ==
    [t |-> [t EXCEPT !.rx_seq = SEQ_INIT, !.connect_state = "SentSyn1"],
     out |-> <<transmit_syn1>>]

\* Transmitter::handle_frame_syn0
handle_frame_syn0(t) ==
    [t |-> [clear_history([t EXCEPT !.rx_seq = SEQ_INIT, !.tx_seq = SEQ_INIT])
              EXCEPT !.connect_state = "SentSyn1"],
     out |-> <<transmit_syn1>>]

\* handle_frame_syn1 without the Disconnected case
handle_frame_syn1_always(t) ==
    [t |-> [t EXCEPT !.connect_state = "Connected"], out |-> <<transmit_syn2>>]

\* handle_frame_syn1 with the move to Connected left out
handle_frame_syn1_stays(t) ==
    IF t.connect_state = "Disconnected"
    THEN [t |-> t, out |-> <<transmit_dis>>]
    ELSE [t |-> t, out |-> <<transmit_syn2>>]

\* Transmitter::handle_frame_syn1
handle_frame_syn1(t) ==
    IF t.connect_state = "Disconnected"
    THEN [t |-> t, out |-> <<transmit_dis>>]
    ELSE LET t1 == [t EXCEPT !.connect_state = "Connected"]
         IN  [t |-> t1,
              out |-> <<transmit_syn2>> \o
                      (IF t1.tx_seq # SEQ_INIT
                       THEN transmit_history_from_seq(t1, SEQ_INIT) ELSE <<>>)]

\* handle_frame_syn2 answering a SYN2 it accepts with a SYN2 of its own
handle_frame_syn2_echo(t) ==
    IF t.connect_state = "Disconnected"
    THEN [t |-> t, out |-> <<transmit_dis>>]
    ELSE IF t.connect_state = "SentSyn0"
    THEN [t |-> t, out |-> <<transmit_syn0>>]
    ELSE [t |-> [t EXCEPT !.connect_state = "Connected"], out |-> <<transmit_syn2>>]

\* handle_frame_syn2 without a test of the connection state
handle_frame_syn2_any_state(t) ==
    [t |-> [t EXCEPT !.connect_state = "Connected"], out |-> <<>>]

\* handle_frame_syn2 without the SentSyn0 case
handle_frame_syn2_accepts(t) ==
    IF t.connect_state = "Disconnected"
    THEN [t |-> t, out |-> <<transmit_dis>>]
    ELSE [t |-> [t EXCEPT !.connect_state = "Connected"], out |-> <<>>]

\* Transmitter::handle_frame_syn2
handle_frame_syn2(t) ==
    IF t.connect_state = "Disconnected"
    THEN [t |-> t, out |-> <<transmit_dis>>]
    ELSE IF t.connect_state = "SentSyn0"
    THEN [t |-> t, out |-> <<transmit_syn0>>]
    ELSE LET t1 == [t EXCEPT !.connect_state = "Connected"]
         IN  [t |-> t1,
              out |-> IF t1.tx_seq # SEQ_INIT
                      THEN transmit_history_from_seq(t1, SEQ_INIT) ELSE <<>>]

\* handle_frame_disconnect answering with a DIS of its own
handle_frame_disconnect_echo(t) ==
    [t |-> [t EXCEPT !.connect_state = "Disconnected"], out |-> <<transmit_dis>>]

\* Transmitter::handle_frame_disconnect
handle_frame_disconnect(t) ==
    [t |-> [t EXCEPT !.connect_state = "Disconnected"], out |-> <<>>]

\* a handler without a result of its own: handle_packet returns MoreDataNeeded
MoreData(r) == [t |-> r.t, out |-> r.out, res |-> Result("MoreDataNeeded")]

\* Transmitter::handle_packet
handle_packet(t, pkt) ==
    IF pkt.type = "USR" THEN handle_frame_usr_rtx(t, USR, pkt.seq)
    ELSE IF pkt.type = "RTX" THEN handle_frame_usr_rtx(t, RTX, pkt.seq)
    ELSE IF pkt.type = "NAK" THEN MoreData(handle_frame_nak(t, pkt.seq))
    ELSE IF pkt.type = "Syn0" THEN MoreData(handle_frame_syn0(t))
    ELSE IF pkt.type = "Syn1" THEN MoreData(handle_frame_syn1(t))
    ELSE IF pkt.type = "Syn2" THEN MoreData(handle_frame_syn2(t))
    ELSE MoreData(handle_frame_disconnect(t))

\* Context::is_connected
is_connected(t) == t.connect_state = "Connected"

\* connect without Transmitter::reset
connect_no_reset(t, ps) ==
    [t |-> [t EXCEPT !.connect_state = "SentSyn0"],
     ps |-> parser_reset(ps),
     out |-> <<transmit_syn0>>]

\* Context::connect
connect(t, ps) ==
    [t |-> [tx_reset(t) EXCEPT !.connect_state = "SentSyn0"],
     ps |-> parser_reset(ps),
     out |-> <<transmit_syn0>>]

\* Context::parse_byte
\* the match on the parser's result: a packet goes to handle_packet, any
\* other result is handed back as it is
handled(r, h) ==
    [t |-> h.t, ps |-> r.ps, buf |-> r.buf, out |-> h.out, res |-> h.res, pkt |-> r.pkt]
\* parse_result answering a CRC error with a NAK
parse_result_nak_on_error(t, r) ==
    IF r.res.kind = "PacketReceived"
    THEN handled(r, handle_packet(t, r.pkt))
    ELSE [t |-> t, ps |-> r.ps, buf |-> r.buf,
          out |-> IF r.res.kind = "CrcError" THEN <<transmit_nak(t.rx_seq)>> ELSE <<>>,
          res |-> r.res, pkt |-> r.pkt]

parse_result(t, r) ==
    IF r.res.kind = "PacketReceived"
    THEN handled(r, handle_packet(t, r.pkt))
    ELSE [t |-> t, ps |-> r.ps, buf |-> r.buf, out |-> <<>>,
          res |-> r.res, pkt |-> r.pkt]
parse_byte(t, ps, buf, byte) == parse_result(t, parser_parse_byte(ps, buf, byte))

\* write_packet without the test of is_connected
write_packet_any_state(t, data) ==
    [t |-> [t EXCEPT !.tx_seq = next_frame_seq(t.tx_seq)],
     out |-> <<write_packet_data(BitOr(USR, t.tx_seq), data)>>]

\* write_packet with the frame type RTX in the header
write_packet_as_rtx(t, data) ==
    IF ~is_connected(t)
    THEN [t |-> t, out |-> <<>>]
    ELSE [t |-> [t EXCEPT !.tx_seq = next_frame_seq(t.tx_seq)],
          out |-> <<write_packet_data(BitOr(RTX, t.tx_seq), data)>>]

\* write_packet without the step of tx_seq
write_packet_same_seq(t, data) ==
    IF ~is_connected(t)
    THEN [t |-> t, out |-> <<>>]
    ELSE [t |-> t, out |-> <<write_packet_data(BitOr(USR, t.tx_seq), data)>>]

\* Context::write_packet
write_packet(t, data) ==
    IF ~is_connected(t)
    THEN [t |-> t, out |-> <<>>]
    ELSE LET header == BitOr(USR, t.tx_seq)
         IN  [t |-> [t EXCEPT !.tx_seq = next_frame_seq(t.tx_seq)],
              out |-> <<write_packet_data(header, data)>>]

\* the transmit history: a ring of QUEUE_SIZE packets, idx the most recent
QUEUE_SIZE == 8
NewQueue == [len |-> 0, idx |-> 0, packet |-> [i \in 0 .. QUEUE_SIZE - 1 |-> <<>>]]

\* PacketQueue::clear
queue_clear(q) == [q EXCEPT !.len = 0, !.idx = 0]

\* next without the limit on len
queue_next_len_unbounded(q) ==
    [q EXCEPT !.len = q.len + 1, !.idx = (q.idx + 1) % QUEUE_SIZE]

\* PacketQueue::next: the queue after the call; the slot handed out is idx
queue_next(q) ==
    [q EXCEPT !.len = IF q.len < QUEUE_SIZE THEN q.len + 1 ELSE q.len,
              !.idx = (q.idx + 1) % QUEUE_SIZE]

\* PacketQueue::get: the offset'th most recent packet, if there are that many
queue_get(q, offset) ==
    IF offset < q.len
    THEN [some |-> TRUE,
          buf |-> q.packet[IF q.idx < offset THEN q.idx + QUEUE_SIZE - offset
                                             ELSE q.idx - offset]]
    ELSE [some |-> FALSE, buf |-> <<>>]

\* TestPacketQueue (testutils.rs), which has a next(), a clear() and a get()
\* of its own in place of the trait's
\* core::cmp::max
max(a, b) == IF a < b THEN b ELSE a

\* TestPacketQueue::clear
test_queue_clear(q) == [q EXCEPT !.len = 0]

\* TestPacketQueue::next: the queue after the call; the slot handed out is idx
test_queue_next(q) ==
    [q EXCEPT !.idx = (q.idx + 1) % QUEUE_SIZE,
              !.len = max(q.len + 1, QUEUE_SIZE)]

\* the slot get() computes for an offset it answers
test_queue_slot(q, offset) ==
    IF q.idx < offset THEN q.idx + QUEUE_SIZE - offset ELSE q.idx - offset

\* TestPacketQueue::get.  A slot below 0 is a usize that has wrapped: the
\* subtraction panics where overflow is tested and the index into the array
\* panics where it is not
test_queue_get(q, offset) ==
    IF offset < q.len
    THEN IF test_queue_slot(q, offset) < 0
         THEN [some |-> FALSE, panic |-> TRUE, buf |-> <<>>]
         ELSE [some |-> TRUE, panic |-> FALSE, buf |-> q.packet[test_queue_slot(q, offset)]]
    ELSE [some |-> FALSE, panic |-> FALSE, buf |-> <<>>]

(***************************************************************************)
(* State.                                                                  *)
(***************************************************************************)
Peers == {"A", "B"}
Other(p) == IF p = "A" THEN "B" ELSE "A"

VARIABLES
    tx,        \* tx[p]: the Transmitter of peer p's Context
    rx,        \* rx[p]: the parser of peer p's Receiver
    rx_data,   \* rx_data[p]: the receive buffer peer p hands to parse_byte
    wire,      \* wire[p]: the frames in flight towards peer p, oldest first
    rxpos,     \* rxpos[p]: bytes of Head(wire[p]) peer p has parsed already
    tx_queue,  \* tx_queue[p]: the transmit history of peer p's storage
    ev,        \* the last call: who, which, what it saw, returned and wrote
    sent,      \* sent[p]: the payloads peer p's write_packet put on the wire
    delivered, \* delivered[p]: the payloads parse_byte handed to peer p
    log,       \* log[p]: the header of every frame peer p wrote, in order
    connects,  \* connects[p]: how often peer p's caller called connect()
    established, \* both peers have been Connected at the same time
    stale,       \* a SYN0 or DIS frame was still in flight when they first were
    lost,        \* number of frames the channel has lost
    results,     \* what parse_u8 returned for each byte so far of the frame fed
    calls        \* how often next() was called on peer A's transmit history

hist == <<sent, delivered, log, connects, established, stale, lost, results, calls>>
vars == <<tx, rx, rx_data, tx_queue, wire, rxpos, ev, hist>>

\* the record of one call on peer p's Context
Event(p, op, r, pre) ==
    [peer |-> p, op |-> op, pkt |-> r.pkt, res |-> r.res, out |-> r.out, pre |-> pre]

\* Context::new on both sides, nothing in flight
Init ==
    /\ tx = [p \in Peers |-> NewTransmitter]
    /\ rx = [p \in Peers |-> NewParser]
    /\ rx_data = [p \in Peers |-> <<>>]
    /\ tx_queue = [p \in Peers |-> NewQueue]
    /\ wire = [p \in Peers |-> <<>>]
    /\ rxpos = [p \in Peers |-> 0]
    /\ ev = Event("A", "new", [pkt |-> NoPacket, res |-> Result("None"), out |-> <<>>],
                  NewTransmitter)
    /\ sent = [p \in Peers |-> <<>>]
    /\ delivered = [p \in Peers |-> <<>>]
    /\ log = [p \in Peers |-> <<>>]
    /\ connects = [p \in Peers |-> 0]
    /\ established = FALSE
    /\ stale = FALSE
    /\ lost = 0
    /\ results = <<>>
    /\ calls = 0

\* the next byte towards peer p and the wire after it is taken
NextByte(p) == Head(wire[p])[rxpos[p] + 1]
Taken(p) ==
    IF rxpos[p] + 1 = Len(Head(wire[p]))
    THEN [wire |-> Tail(wire[p]), rxpos |-> 0]
    ELSE [wire |-> wire[p], rxpos |-> rxpos[p] + 1]

(***************************************************************************)
(* One engine against an arbitrary byte source: the peer is the            *)
(* environment, which sends the engine any sequence of the pieces of       *)
(* EnvPieces; what the engine writes is seen in ev.out and goes nowhere.   *)
(***************************************************************************)
Payloads == {<<84>>}

\* a frame as the writer produces it, less its opening SOF (the closing SOF
\* of the frame before it serves as one)
Body(frame) == Tail(frame)

\* every user frame the environment may send, encoded once
Frames == [h \in 0..255 |-> [d \in Payloads |-> write_packet_data(h, d)]]

\* the pieces of stream the environment may send next to an engine whose
\* transmitter is t: a lone SOF, the well-formed frames of every kind
\* (in and out of sequence), and damaged ones
EnvPieces(t) ==
    {<<SOF>>}
    \cup {Body(f) : f \in {transmit_syn0, transmit_syn1, transmit_syn2, transmit_dis,
                           transmit_control_packet(SYN, 4), transmit_nak(SEQ_INIT)}}
    \cup {Body(Frames[BitOr(ft, s)][d]) :
            ft \in {USR, RTX},
            s \in {t.rx_seq, next_frame_seq(t.rx_seq)},
            d \in Payloads}
    \cup {<<0, 0, 0, SOF>>, <<0, 0, SOF>>, <<192, 17, ESC, SOF>>, <<0, 84>>}

\* the caller calls connect()
EngConnect ==
    \E r \in {connect(tx["A"], rx["A"])} :
        /\ tx' = [tx EXCEPT !["A"] = r.t]
        /\ rx' = [rx EXCEPT !["A"] = r.ps]
        /\ ev' = Event("A", "connect",
                       [pkt |-> NoPacket, res |-> Result("None"), out |-> r.out],
                       tx["A"])
        /\ UNCHANGED <<tx_queue, rx_data, wire, rxpos, hist>>

\* the caller calls write_packet(data), at most MaxSend packets per session
EngWritePacket(data) ==
    \E r \in {write_packet(tx["A"], data)} :
        /\ tx["A"].tx_seq < MaxSend
        /\ tx' = [tx EXCEPT !["A"] = r.t]
        /\ ev' = Event("A", "write_packet",
                       [pkt |-> NoPacket, res |-> Result("None"), out |-> r.out],
                       tx["A"])
        /\ UNCHANGED <<tx_queue, rx, rx_data, wire, rxpos, hist>>

\* the caller hands byte, the next of the stream, to parse_byte; rest is what
\* of the piece is still to come
EngParse(byte, rest) ==
    \E r \in {parse_byte(tx["A"], rx["A"], rx_data["A"], byte)} :
        /\ tx' = [tx EXCEPT !["A"] = r.t]
        /\ rx' = [rx EXCEPT !["A"] = r.ps]
        /\ rx_data' = [rx_data EXCEPT !["A"] = r.buf]
        /\ wire' = [wire EXCEPT !["A"] = IF rest = <<>> THEN <<>> ELSE <<rest>>]
        /\ ev' = Event("A", "parse_byte", r, tx["A"])
        /\ UNCHANGED <<tx_queue, rxpos, hist>>

\* the first byte of the piece the environment sends next
EngParseFirst ==
    /\ wire["A"] = <<>>
    /\ \E piece \in EnvPieces(tx["A"]) : EngParse(Head(piece), Tail(piece))

\* the next byte of the piece under way
EngParseNext ==
    /\ wire["A"] # <<>>
    /\ EngParse(Head(wire["A"][1]), Tail(wire["A"][1]))

Next ==
    \/ EngConnect
    \/ \E data \in Payloads : EngWritePacket(data)
    \/ EngParseFirst
    \/ EngParseNext

Spec == Init /\ [][Next]_vars

(***************************************************************************)
(* Two engines joined by a FIFO byte stream in each direction.  A frame    *)
(* a peer writes is appended to the wire towards the other peer, which     *)
(* parses it byte by byte.                                                 *)
(***************************************************************************)
\* the header byte of a frame on the wire (unescaped)
HeaderOf(frame) ==
    IF frame[2] = ESC THEN BitXor(frame[3], ESC_FLIP) ELSE frame[2]

RECURSIVE Headers(_)
Headers(frames) ==
    IF frames = <<>> THEN <<>>
    ELSE <<HeaderOf(Head(frames))>> \o Headers(Tail(frames))

BothConnected(t) == is_connected(t["A"]) /\ is_connected(t["B"])

\* a frame that ends the session of the peer it reaches (SYN0 or DIS) is in
\* flight on the wires w
Resetting(w) ==
    \E p \in Peers : \E i \in 1..Len(w[p]) :
        HeaderOf(w[p][i]) \in {BitOr(SYN, SYN0), BitOr(SYN, DIS)}

\* peer p's caller calls connect()
LinkConnect(p) ==
    \E r \in {connect(tx[p], rx[p])} :
        /\ tx' = [tx EXCEPT ![p] = r.t]
        /\ rx' = [rx EXCEPT ![p] = r.ps]
        /\ wire' = [wire EXCEPT ![Other(p)] = @ \o r.out]
        /\ log' = [log EXCEPT ![p] = @ \o Headers(r.out)]
        /\ connects' = [connects EXCEPT ![p] = @ + 1]
        /\ ev' = Event(p, "connect",
                       [pkt |-> NoPacket, res |-> Result("None"), out |-> r.out],
                       tx[p])
        /\ UNCHANGED <<tx_queue, results, rx_data, rxpos, sent, delivered, established, stale, lost, calls>>

\* the one connect() call of the handshake scenario: peer A, once
ConnectOnce ==
    /\ connects["A"] = 0
    /\ LinkConnect("A")

\* connect() by either peer, until both have been Connected
Connect(p) ==
    /\ ~established
    /\ connects["A"] + connects["B"] < MaxConnect
    /\ Len(wire[Other(p)]) < MaxWire
    /\ LinkConnect(p)

\* peer p's caller calls write_packet(data) once both have been Connected
WritePacket(p, data) ==
    \E r \in {write_packet(tx[p], data)} :
        /\ established
        /\ Len(sent[p]) < MaxSend
        /\ Len(wire[Other(p)]) < MaxWire
        /\ tx' = [tx EXCEPT ![p] = r.t]
        /\ wire' = [wire EXCEPT ![Other(p)] = @ \o r.out]
        /\ UNCHANGED log
        /\ sent' = [sent EXCEPT ![p] = IF r.out = <<>> THEN @ ELSE Append(@, data)]
        /\ ev' = Event(p, "write_packet",
                       [pkt |-> NoPacket, res |-> Result("None"), out |-> r.out],
                       tx[p])
        /\ UNCHANGED <<tx_queue, results, rx, rx_data, rxpos, delivered, connects, established, stale, lost,
                   calls>>

\* peer p's driver hands the next byte of its stream to parse_byte
ParseByte(p) ==
    /\ wire[p] # <<>>
    /\ \E r \in {parse_byte(tx[p], rx[p], rx_data[p], NextByte(p))} :
       \E w \in {Taken(p)} :
        /\ tx' = [tx EXCEPT ![p] = r.t]
        /\ rx' = [rx EXCEPT ![p] = r.ps]
        /\ rx_data' = [rx_data EXCEPT ![p] = r.buf]
        /\ wire' = [wire EXCEPT ![p] = w.wire, ![Other(p)] = @ \o r.out]
        /\ rxpos' = [rxpos EXCEPT ![p] = w.rxpos]
        /\ log' = IF established THEN log ELSE [log EXCEPT ![p] = @ \o Headers(r.out)]
        /\ delivered' = [delivered EXCEPT ![p] =
                            IF r.res.kind = "UserPacket" THEN Append(@, r.buf) ELSE @]
        /\ established' = (established \/ BothConnected(tx'))
        /\ stale' = IF established \/ ~established' THEN stale ELSE Resetting(wire')
        /\ ev' = Event(p, "parse_byte", r, tx[p])
        /\ UNCHANGED <<tx_queue, results, sent, connects, lost, calls>>

\* the handshake scenario: fresh engines, only A calls connect()
NextHandshake ==
    \/ ConnectOnce
    \/ \E p \in Peers, data \in Payloads : WritePacket(p, data)
    \/ \E p \in Peers : ParseByte(p)

\* peer p's driver takes the next byte of its stream: the part of ParseByte(p)
\* that moves the read position, which no other action of the link moves
Consume(p) ==
    /\ wire[p] # <<>>
    /\ rxpos' = [rxpos EXCEPT ![p] = Taken(p).rxpos]

\* a driver does not leave received bytes unread forever: weak fairness of
\* ParseByte(p), stated on the read position
Fairness == \A p \in Peers : WF_rxpos(Consume(p))

SpecHandshake == Init /\ [][NextHandshake]_vars /\ Fairness

\* connect() by a peer that has not called it yet and has received nothing
FirstConnect(p) ==
    /\ connects[p] = 0
    /\ rxpos[p] = 0 /\ rx[p] = NewParser /\ tx[p] = NewTransmitter
    /\ LinkConnect(p)

\* the opening of a link: each peer may call connect() once, before it has
\* received anything, so that both may open at the same time
NextOpen ==
    \/ \E p \in Peers : FirstConnect(p)
    \/ \E p \in Peers : ParseByte(p)

SpecOpen == Init /\ [][NextOpen]_vars /\ Fairness

\* the link with connect() free on both sides
NextLink ==
    \/ \E p \in Peers : Connect(p)
    \/ \E p \in Peers, data \in Payloads : WritePacket(p, data)
    \/ \E p \in Peers : ParseByte(p)

SpecLink == Init /\ [][NextLink]_vars /\ Fairness

(***************************************************************************)
(* The link over channels that lose whole frames: a frame is lost when it  *)
(* reaches the head of its wire.  A is the sender; the k-th packet it      *)
(* writes has the payload <<k>>.                                           *)
(***************************************************************************)
\* the channel loses the frame at the head of peer p's wire, none of which
\* has been read yet
Drop(p) ==
    /\ wire[p] # <<>>
    /\ rxpos[p] = 0
    /\ lost < MaxLost
    /\ wire' = [wire EXCEPT ![p] = Tail(@)]
    /\ lost' = lost + 1
    /\ UNCHANGED <<tx_queue, results, tx, rx, rx_data, rxpos, ev, sent, delivered, log, connects,
                   established, stale, calls>>

\* A's caller writes the next packet of the series
WriteSeries ==
    \E data \in {<<Len(sent["A"])>>} :
    \E r \in {write_packet(tx["A"], data)} :
        /\ established
        /\ Len(sent["A"]) < MaxSeries
        /\ Len(wire["B"]) < MaxLossyWire
        /\ tx' = [tx EXCEPT !["A"] = r.t]
        /\ wire' = [wire EXCEPT !["B"] = @ \o r.out]
        /\ sent' = [sent EXCEPT !["A"] = IF r.out = <<>> THEN @ ELSE Append(@, data)]
        /\ ev' = Event("A", "write_packet",
                       [pkt |-> NoPacket, res |-> Result("None"), out |-> r.out],
                       tx["A"])
        /\ UNCHANGED <<tx_queue, results, rx, rx_data, rxpos, delivered, log, connects, established, stale, lost,
                   calls>>

\* peer p's driver hands the next byte of its stream to parse_byte; what the
\* engine writes in response goes to the other wire, which has room for it
LossyParseByte(p) ==
    /\ wire[p] # <<>>
    /\ Len(wire[Other(p)]) < MaxLossyWire
    /\ \E r \in {parse_byte(tx[p], rx[p], rx_data[p], NextByte(p))} :
       \E w \in {Taken(p)} :
        /\ tx' = [tx EXCEPT ![p] = r.t]
        /\ rx' = [rx EXCEPT ![p] = r.ps]
        /\ rx_data' = [rx_data EXCEPT ![p] = r.buf]
        /\ wire' = [wire EXCEPT ![p] = w.wire, ![Other(p)] = @ \o r.out]
        /\ rxpos' = [rxpos EXCEPT ![p] = w.rxpos]
        /\ delivered' = [delivered EXCEPT ![p] =
                            IF r.res.kind = "UserPacket" THEN Append(@, r.buf) ELSE @]
        /\ established' = (established \/ BothConnected(tx'))
        /\ ev' = Event(p, "parse_byte", r, tx[p])
        /\ UNCHANGED <<tx_queue, results, sent, log, connects, stale, lost, calls>>

NextLossy ==
    \/ ConnectOnce
    \/ WriteSeries
    \/ \E p \in Peers : LossyParseByte(p)
    \/ \E p \in Peers : Drop(p)

SpecLossy == Init /\ [][NextLossy]_vars

(***************************************************************************)
(* The framing codec on its own: frames the writer produces are fed byte   *)
(* by byte to a raw parser (peer A's), first to a parser as constructed,   *)
(* then to one that has taken an arbitrary byte stream before.             *)
(***************************************************************************)
\* every byte sequence over bytes of at most n bytes
RECURSIVE SeqsUpTo(_, _)
SeqsUpTo(bytes, n) ==
    IF n = 0 THEN {<<>>}
    ELSE LET shorter == SeqsUpTo(bytes, n - 1)
         IN  shorter \cup {Append(q, b) : q \in shorter, b \in bytes}

\* the payload bytes tried: the delimiter, the escape byte, what they are
\* escaped to, and plain bytes
RoundTripBytes == {0, 94, 93, ESC, SOF, 255}
RoundTripPayloads == SeqsUpTo(RoundTripBytes, Capacity - CRC_SIZE)

\* what a call of parse_u8 found: the parser, the buffer and the byte handed in
Before(byte) == [ps |-> rx["A"], buf |-> rx_data["A"], byte |-> byte]

\* the raw parser takes the next byte of the frame on the wire
RawParse ==
    /\ wire["A"] # <<>>
    /\ \E r \in {parse_u8(rx["A"], rx_data["A"], NextByte("A"))} :
       \E w \in {Taken("A")} :
        /\ rx' = [rx EXCEPT !["A"] = r.ps]
        /\ rx_data' = [rx_data EXCEPT !["A"] = r.buf]
        /\ wire' = [wire EXCEPT !["A"] = w.wire]
        /\ rxpos' = [rxpos EXCEPT !["A"] = w.rxpos]
        /\ results' = Append(results, r.res)
        /\ ev' = Event("A", "parse_u8", [pkt |-> NoPacket, res |-> r.res, out |-> <<>>],
                       Before(NextByte("A")))
        /\ UNCHANGED <<tx, tx_queue, sent, delivered, log, connects, established,
                       stale, lost, calls>>

\* write_packet_data(header, data), for any header and any payload that fits,
\* is written towards a parser as constructed
RoundTripFrame ==
    /\ wire["A"] = <<>>
    /\ log["A"] = <<>>
    /\ \E header \in 0 .. 255 : \E data \in RoundTripPayloads :
        /\ wire' = [wire EXCEPT !["A"] = <<write_packet_data(header, data)>>]
        /\ log' = [log EXCEPT !["A"] = <<header>>]
        /\ sent' = [sent EXCEPT !["A"] = <<data>>]
    /\ UNCHANGED <<tx, rx, rx_data, tx_queue, rxpos, ev, delivered, connects,
                   established, stale, lost, results, calls>>

NextRoundTrip ==
    \/ RoundTripFrame
    \/ RawParse

SpecRoundTrip == Init /\ [][NextRoundTrip]_vars

\* the bytes the stream before a frame is made of: a plain byte, the escape
\* byte and the delimiter
PrefixBytes == {0, ESC, SOF}
ResyncHeaders == {0, ESC, SOF, 192}
ResyncPayloads == SeqsUpTo({0, SOF}, Capacity - CRC_SIZE)

\* one more byte of the stream that precedes the frame
Prefix(byte) ==
    /\ wire["A"] = <<>>
    /\ \E r \in {parse_u8(rx["A"], rx_data["A"], byte)} :
        /\ rx' = [rx EXCEPT !["A"] = r.ps]
        /\ rx_data' = [rx_data EXCEPT !["A"] = r.buf]
        /\ ev' = Event("A", "prefix", [pkt |-> NoPacket, res |-> r.res, out |-> <<>>],
                       Before(byte))
    /\ log' = [log EXCEPT !["A"] = <<>>]
    /\ sent' = [sent EXCEPT !["A"] = <<>>]
    /\ results' = <<>>
    /\ UNCHANGED <<tx, tx_queue, wire, rxpos, delivered, connects, established,
                   stale, lost, calls>>

\* write_packet_data(header, data) is written after whatever came before
ResyncFrame(header, data) ==
    /\ wire["A"] = <<>>
    /\ wire' = [wire EXCEPT !["A"] = <<write_packet_data(header, data)>>]
    /\ log' = [log EXCEPT !["A"] = <<header>>]
    /\ sent' = [sent EXCEPT !["A"] = <<data>>]
    /\ results' = <<>>
    /\ UNCHANGED <<tx, rx, rx_data, tx_queue, rxpos, ev, delivered, connects,
                   established, stale, lost, calls>>

\* the byte taken last was a SOF that closed a frame
ClosingSof ==
    /\ ev.op \in {"parse_u8", "prefix"}
    /\ ev.pre.byte = SOF
    /\ ev.pre.ps.escape_state = "Normal"
    /\ ev.pre.ps.frame_state = "Collecting"

\* right after a closing SOF the next frame is written without a SOF of its
\* own: header, payload, crc, SOF
SharedSofFrame(header, data) ==
    /\ wire["A"] = <<>>
    /\ ClosingSof
    /\ wire' = [wire EXCEPT !["A"] = <<Tail(write_packet_data(header, data))>>]
    /\ log' = [log EXCEPT !["A"] = <<header>>]
    /\ sent' = [sent EXCEPT !["A"] = <<data>>]
    /\ results' = <<>>
    /\ UNCHANGED <<tx, rx, rx_data, tx_queue, rxpos, ev, delivered, connects,
                   established, stale, lost, calls>>

NextResync ==
    \/ \E byte \in PrefixBytes : Prefix(byte)
    \/ \E header \in ResyncHeaders : \E data \in ResyncPayloads :
          SharedSofFrame(header, data)
    \/ \E header \in ResyncHeaders : \E data \in ResyncPayloads :
          ResyncFrame(header, data)
    \/ RawParse

SpecResync == Init /\ [][NextResync]_vars

(***************************************************************************)
(* The transmit history on its own: a caller takes slots with next(),      *)
(* stores a packet in each, and clears the queue now and then.             *)
(***************************************************************************)
\* next(), and the caller stores the packet <<calls + 1>> in the slot it got
QueueNext ==
    /\ calls < MaxNext
    /\ \E q \in {queue_next(tx_queue["A"])} :
        /\ tx_queue' = [tx_queue EXCEPT !["A"] = [q EXCEPT !.packet[q.idx] = <<calls + 1>>]]
    /\ calls' = calls + 1
    /\ sent' = [sent EXCEPT !["A"] = Append(@, <<calls + 1>>)]
    /\ ev' = Event("A", "next", [pkt |-> NoPacket, res |-> Result("None"), out |-> <<>>],
                   tx["A"])
    /\ UNCHANGED <<tx, rx, rx_data, wire, rxpos, delivered, log, connects,
                   established, stale, lost, results>>

\* clear()
QueueClear ==
    /\ tx_queue' = [tx_queue EXCEPT !["A"] = queue_clear(@)]
    /\ sent' = [sent EXCEPT !["A"] = <<>>]
    /\ ev' = Event("A", "clear", [pkt |-> NoPacket, res |-> Result("None"), out |-> <<>>],
                   tx["A"])
    /\ UNCHANGED <<tx, rx, rx_data, wire, rxpos, delivered, log, connects,
                   established, stale, lost, results, calls>>

NextQueue ==
    \/ QueueNext
    \/ QueueClear

SpecQueue == Init /\ [][NextQueue]_vars

(***************************************************************************)
(* The CRC on its own: the accumulator of peer A's parser takes any bytes  *)
(* from its reset value and then its own CRC.                              *)
(***************************************************************************)
\* crc.accum(byte)
CrcAccum(byte) ==
    /\ ev.op \in {"new", "accum"}
    /\ Len(log["A"]) < MaxCrcLen
    /\ rx' = [rx EXCEPT !["A"].crc = accum(@, byte)]
    /\ log' = [log EXCEPT !["A"] = Append(@, byte)]
    /\ ev' = Event("A", "accum", [pkt |-> NoPacket, res |-> Result("None"), out |-> <<>>],
                   Before(byte))
    /\ UNCHANGED <<tx, rx_data, tx_queue, wire, rxpos, sent, delivered, connects,
                   established, stale, lost, results, calls>>

\* crc.accum_crc()
CrcAccumCrc ==
    /\ ev.op \in {"new", "accum"}
    /\ rx' = [rx EXCEPT !["A"].crc = accum_crc(@)]
    /\ ev' = Event("A", "accum_crc", [pkt |-> NoPacket, res |-> Result("None"), out |-> <<>>],
                   Before(0))
    /\ UNCHANGED <<tx, rx_data, tx_queue, wire, rxpos, sent, delivered, log, connects,
                   established, stale, lost, results, calls>>

NextCrc ==
    \/ \E byte \in 0 .. 255 : CrcAccum(byte)
    \/ CrcAccumCrc

SpecCrc == Init /\ [][NextCrc]_vars

(***************************************************************************)
(* The writer on its own: write_packet_data for every header and for       *)
(* payloads that need not fit any receive buffer.  What peer A's writer    *)
(* writes is on the wire towards B.                                        *)
(***************************************************************************)
\* "Testing"
Testing == <<84, 101, 115, 116, 105, 110, 103>>
WriterPayloads == SeqsUpTo(RoundTripBytes, MaxPayload) \cup {Testing}

WriterFrame ==
    /\ wire["B"] = <<>>
    /\ \E header \in 0 .. 255 : \E data \in WriterPayloads :
        /\ wire' = [wire EXCEPT !["B"] = <<write_packet_data(header, data)>>]
        /\ log' = [log EXCEPT !["A"] = <<header>>]
        /\ sent' = [sent EXCEPT !["A"] = <<data>>]
    /\ UNCHANGED <<tx, rx, rx_data, tx_queue, rxpos, ev, delivered, connects,
                   established, stale, lost, results, calls>>

NextWriter == WriterFrame

SpecWriter == Init /\ [][NextWriter]_vars

(***************************************************************************)
(* Frames as a stream may hold them, whatever wrote them: a header and any *)
(* number of bytes between two SOFs, with a good CRC or a bad one, short,  *)
(* or longer than the receive buffer (a sender with a larger buffer, or a  *)
(* stream that has lost a delimiter).                                      *)
(***************************************************************************)
\* the bytes tried: those of the frame 7E 00 00 crc 7E
RawBytes == {write_packet_data(0, <<0>>)[i] : i \in 3 .. 5}
RawData == SeqsUpTo(RawBytes, Capacity + MaxExcess)

\* SOF, header, data, SOF towards a parser as constructed
RawFrame ==
    /\ wire["A"] = <<>>
    /\ log["A"] = <<>>
    /\ \E header \in {0, 192} : \E data \in RawData :
        /\ wire' = [wire EXCEPT !["A"] = << <<SOF, header>> \o data \o <<SOF>> >>]
        /\ log' = [log EXCEPT !["A"] = <<header>>]
        /\ sent' = [sent EXCEPT !["A"] = <<data>>]
    /\ UNCHANGED <<tx, rx, rx_data, tx_queue, rxpos, ev, delivered, connects,
                   established, stale, lost, results, calls>>

NextRawFrames ==
    \/ RawFrame
    \/ RawParse

SpecRawFrames == Init /\ [][NextRawFrames]_vars

(***************************************************************************)
(* The receive buffers on their own.  The three implementations hold the   *)
(* same state, a length and the bytes below it, and append alike, so one   *)
(* byte sequence (peer A's buffer) stands for a buffer of any of them and  *)
(* the implementation is named with the call.                              *)
(***************************************************************************)
BufferBytes == {0, 18, 52, SOF, 255}
Buffers == {"PacketBuffer", "Packet", "UserPacket"}

\* remove_crc of the implementation impl
remove_crc_of(impl, buf) ==
    IF impl = "PacketBuffer" THEN remove_crc(buf)
    ELSE IF impl = "Packet" THEN packet_remove_crc(buf)
    ELSE user_packet_remove_crc(buf)

\* append(byte)
BufferAppend(byte) ==
    /\ \E r \in {packet_append(rx_data["A"], byte)} :
        /\ rx_data' = [rx_data EXCEPT !["A"] = r.buf]
        /\ ev' = Event("A", "append",
                       [pkt |-> NoPacket, out |-> <<>>,
                        res |-> Result(IF r.ok THEN "Ok" ELSE "Err")],
                       Before(byte))
    /\ UNCHANGED <<tx, rx, tx_queue, wire, rxpos, hist>>

\* remove_crc() on a buffer of the implementation impl; the result's kind is
\* the implementation, its val the CRC returned
BufferRemoveCrc(impl) ==
    /\ \E r \in {remove_crc_of(impl, rx_data["A"])} :
        /\ rx_data' = [rx_data EXCEPT !["A"] = r.buf]
        /\ ev' = Event("A", "remove_crc",
                       [pkt |-> NoPacket, out |-> <<>>,
                        res |-> [kind |-> impl, val |-> r.crc]],
                       Before(0))
    /\ UNCHANGED <<tx, rx, tx_queue, wire, rxpos, hist>>

\* reset()
BufferReset ==
    /\ rx_data' = [rx_data EXCEPT !["A"] = <<>>]
    /\ ev' = Event("A", "reset", [pkt |-> NoPacket, res |-> Result("None"), out |-> <<>>],
                   Before(0))
    /\ UNCHANGED <<tx, rx, tx_queue, wire, rxpos, hist>>

NextBuffers ==
    \/ \E byte \in BufferBytes : BufferAppend(byte)
    \/ \E impl \in Buffers : BufferRemoveCrc(impl)
    \/ BufferReset

SpecBuffers == Init /\ [][NextBuffers]_vars

(***************************************************************************)
(* One engine fed frames of every header: the environment sends a frame    *)
(* with no payload for any of the 256 header bytes, the caller connects    *)
(* and writes.  In-sequence user frames, which step rx_seq, are sent for   *)
(* the first MaxSend sequence numbers.  As in Spec the closing SOF of one  *)
(* frame is the opening SOF of the next.                                   *)
(***************************************************************************)
\* SOF header crc SOF for every header byte, encoded once
HeaderFrames == [h \in 0 .. 255 |-> write_packet_data(h, <<>>)]

\* what a call of parse_byte found: the transmitter's fields and the byte
\* handed in
Found(byte) ==
    [connect_state |-> tx["A"].connect_state, rx_seq |-> tx["A"].rx_seq,
     tx_seq |-> tx["A"].tx_seq, byte |-> byte]

\* parse_byte(byte); rest is what of the frame is still to come
HeaderParse(byte, rest) ==
    \E r \in {parse_byte(tx["A"], rx["A"], rx_data["A"], byte)} :
        /\ tx' = [tx EXCEPT !["A"] = r.t]
        /\ rx' = [rx EXCEPT !["A"] = r.ps]
        /\ rx_data' = [rx_data EXCEPT !["A"] = r.buf]
        /\ wire' = [wire EXCEPT !["A"] = IF rest = <<>> THEN <<>> ELSE <<rest>>]
        /\ ev' = Event("A", "parse_byte", r, Found(byte))
        /\ UNCHANGED <<tx_queue, rxpos, hist>>

\* the first byte of the frame the environment sends next
HeaderParseFirst ==
    /\ wire["A"] = <<>>
    /\ \E header \in 0 .. 255 :
        /\ header \in {USR + tx["A"].rx_seq, RTX + tx["A"].rx_seq}
              => tx["A"].rx_seq < MaxSend
        /\ HeaderParse(Head(Body(HeaderFrames[header])), Tail(Body(HeaderFrames[header])))

\* the next byte of the frame under way
HeaderParseNext ==
    /\ wire["A"] # <<>>
    /\ HeaderParse(Head(wire["A"][1]), Tail(wire["A"][1]))

NextHeaders ==
    \/ EngConnect
    \/ \E data \in Payloads : EngWritePacket(data)
    \/ HeaderParseFirst
    \/ HeaderParseNext

SpecHeaders == Init /\ [][NextHeaders]_vars

(***************************************************************************)
(* One transmitter over whole sessions: the caller connects and writes     *)
(* without limit (tx_seq goes round), and the parser hands handle_packet   *)
(* packets of every kind.  The sequence numbers received are those around  *)
(* rx_seq and the two ends of the range.                                   *)
(***************************************************************************)
SeqsTried(t) == {t.rx_seq, next_frame_seq(t.rx_seq), 0, SEQ_MASK}
PacketsTried(t) ==
    {Packet(type, seq) : type \in {"USR", "RTX", "NAK"}, seq \in SeqsTried(t)}
    \cup {Packet(type, 0) : type \in {"Syn0", "Syn1", "Syn2", "Disconnect"}}

\* connect()
SeqConnect ==
    \E r \in {connect(tx["A"], rx["A"])} :
        /\ tx' = [tx EXCEPT !["A"] = r.t]
        /\ ev' = Event("A", "connect",
                       [pkt |-> NoPacket, res |-> Result("None"), out |-> r.out], <<>>)
        /\ UNCHANGED <<rx, tx_queue, rx_data, wire, rxpos, hist>>

\* write_packet(data)
SeqWritePacket(data) ==
    \E r \in {write_packet(tx["A"], data)} :
        /\ tx' = [tx EXCEPT !["A"] = r.t]
        /\ ev' = Event("A", "write_packet",
                       [pkt |-> NoPacket, res |-> Result("None"), out |-> r.out], <<>>)
        /\ UNCHANGED <<rx, tx_queue, rx_data, wire, rxpos, hist>>

\* handle_packet(pkt)
SeqHandlePacket ==
    \E pkt \in PacketsTried(tx["A"]) :
    \E r \in {handle_packet(tx["A"], pkt)} :
        /\ tx' = [tx EXCEPT !["A"] = r.t]
        /\ ev' = Event("A", "handle_packet",
                       [pkt |-> pkt, res |-> r.res, out |-> r.out], <<>>)
        /\ UNCHANGED <<rx, tx_queue, rx_data, wire, rxpos, hist>>

NextSeq ==
    \/ SeqConnect
    \/ \E data \in Payloads : SeqWritePacket(data)
    \/ SeqHandlePacket

SpecSeq == Init /\ [][NextSeq]_vars

(***************************************************************************)
(* The test queue on its own, used as the transmit history is: next(),     *)
(* a packet stored in the slot, clear() now and then.                      *)
(***************************************************************************)
\* next(), and the caller stores the packet <<calls + 1>> in the slot it got
TestQueueNext ==
    /\ calls < MaxNext
    /\ \E q \in {test_queue_next(tx_queue["A"])} :
        /\ tx_queue' = [tx_queue EXCEPT !["A"] = [q EXCEPT !.packet[q.idx] = <<calls + 1>>]]
    /\ calls' = calls + 1
    /\ sent' = [sent EXCEPT !["A"] = Append(@, <<calls + 1>>)]
    /\ ev' = Event("A", "next", [pkt |-> NoPacket, res |-> Result("None"), out |-> <<>>],
                   tx["A"])
    /\ UNCHANGED <<tx, rx, rx_data, wire, rxpos, delivered, log, connects,
                   established, stale, lost, results>>

\* clear()
TestQueueClear ==
    /\ tx_queue' = [tx_queue EXCEPT !["A"] = test_queue_clear(@)]
    /\ sent' = [sent EXCEPT !["A"] = <<>>]
    /\ ev' = Event("A", "clear", [pkt |-> NoPacket, res |-> Result("None"), out |-> <<>>],
                   tx["A"])
    /\ UNCHANGED <<tx, rx, rx_data, wire, rxpos, delivered, log, connects,
                   established, stale, lost, results, calls>>

\* get(offset); the result's kind is Some, None or Panic, its val the offset,
\* and what the call wrote is the packet it answered with
TestQueueGet(offset) ==
    /\ \E r \in {test_queue_get(tx_queue["A"], offset)} :
        ev' = Event("A", "get",
                    [pkt |-> NoPacket,
                     res |-> [kind |-> IF r.panic THEN "Panic"
                                       ELSE IF r.some THEN "Some" ELSE "None",
                              val |-> offset],
                     out |-> r.buf],
                    tx["A"])
    /\ UNCHANGED <<tx, rx, rx_data, tx_queue, wire, rxpos, hist>>

NextTestQueue ==
    \/ TestQueueNext
    \/ TestQueueClear
    \/ \E offset \in 0 .. QUEUE_SIZE + MaxNext : TestQueueGet(offset)

SpecTestQueue == Init /\ [][NextTestQueue]_vars

(***************************************************************************)
(* The parser of packet.rs on its own: any stream of at most MaxStream     *)
(* bytes over plain bytes, ESC and SOF is fed to a parser as constructed;  *)
(* the bytes fed so far are kept in log.                                   *)
(***************************************************************************)
StreamBytes == {0, ESC, SOF}

\* parse_u8(byte)
PacketParse(byte) ==
    /\ Len(log["A"]) < MaxStream
    /\ \E r \in {packet_parse_u8(rx["A"], rx_data["A"], byte)} :
        /\ rx' = [rx EXCEPT !["A"] = r.ps]
        /\ rx_data' = [rx_data EXCEPT !["A"] = r.buf]
        /\ ev' = Event("A", "parse_u8", [pkt |-> NoPacket, res |-> r.res, out |-> <<>>],
                       Before(byte))
    /\ log' = [log EXCEPT !["A"] = Append(@, byte)]
    /\ UNCHANGED <<tx, tx_queue, wire, rxpos, sent, delivered, connects, established,
                   stale, lost, results, calls>>

NextPacketParser == \E byte \in StreamBytes : PacketParse(byte)

SpecPacketParser == Init /\ [][NextPacketParser]_vars

TypeOK ==
    /\ \A p \in Peers :
        /\ tx[p].connect_state \in {"Disconnected", "SentSyn0", "SentSyn1", "Connected"}
        /\ tx[p].rx_seq \in 0..255
        /\ tx[p].tx_seq \in 0..255
        /\ Len(rx_data[p]) <= Capacity

(***************************************************************************)
(* Properties.                                                             *)
(***************************************************************************)
IsPrefix(s, t) == Len(s) <= Len(t) /\ SubSeq(t, 1, Len(s)) = s

\* no frame in flight in either direction
Quiet == \A p \in Peers : wire[p] = <<>>

\* the last call was parse_byte on peer p and completed a packet of this type
Received(p, type) == ev.op = "parse_byte" /\ ev.peer = p /\ ev.pkt.type = type

\* the steps of the handshake of C1, as a predicate on the last call made.
\* From two fresh engines on lossless FIFO channels, with connect() called
\* by A only: A's connect() emits one SYN0;
\* B answers Syn0 with one SYN1 and is in SentSyn1; A on Syn1 is Connected and
\* emits one SYN2; B on Syn2 is Connected and emits nothing; each side has
\* emitted exactly these frames and no others by the time both are
\* Connected.
C1_Steps ==
    /\ ev.op = "connect" => ev.out = <<transmit_syn0>>
    /\ Received("B", "Syn0") =>
          ev.out = <<transmit_syn1>> /\ tx["B"].connect_state = "SentSyn1"
    /\ Received("A", "Syn1") =>
          ev.out = <<transmit_syn2>> /\ is_connected(tx["A"])
    /\ Received("B", "Syn2") => ev.out = <<>> /\ is_connected(tx["B"])
    /\ IsPrefix(log["A"], <<192, 194>>)
    /\ IsPrefix(log["B"], <<193>>)
    /\ established => log = [p \in Peers |-> IF p = "A" THEN <<192, 194>> ELSE <<193>>]

\* C1: three-way handshake.  From two fresh engines on lossless FIFO
\* channels with connect() called by A only, every step emits the frame and
\* reaches the state C1_Steps names, and once A has called connect() the
\* link eventually is quiescent: both sides Connected, nothing in flight.
C1_Handshake ==
    /\ []C1_Steps
    /\ (connects["A"] = 1) ~> (BothConnected(tx) /\ Quiet)

\* the handshake has run to its end and nothing else has happened
C1_Witness ==
    /\ Received("B", "Syn2")
    /\ BothConnected(tx) /\ Quiet
    /\ log["A"] = <<192, 194>> /\ log["B"] = <<193>>
    /\ sent = [p \in Peers |-> <<>>]


\* every packet written has been delivered, and the sequence numbers of the
\* two directions agree
AllDelivered ==
    \A p \in Peers :
        /\ delivered[Other(p)] = sent[p]
        /\ tx[p].tx_seq = Len(sent[p]) % 64
        /\ tx[Other(p)].rx_seq = tx[p].tx_seq

\* the safety part of C2, on a session established cleanly.  Once
\* both peers are Connected with no SYN0 or DIS frame still in flight (and
\* neither calls connect() again), every write_packet(P) by one peer
\* eventually makes the other peer's parse_byte return UserPacket with the
\* receive buffer equal to P; the receiver emits nothing in response; what
\* has been delivered is at every moment a prefix of what was written; and
\* when nothing is in flight the sender's tx_seq equals the receiver's
\* rx_seq, the number of packets written (1 after the first).
C2_Session ==
    (established /\ ~stale) =>
        /\ \A p \in Peers : IsPrefix(delivered[p], sent[Other(p)])
        /\ (ev.op = "parse_byte" /\ ev.res.kind = "UserPacket") =>
              /\ ev.out = <<>>
              /\ delivered[ev.peer] # <<>>
              /\ rx_data[ev.peer] = sent[Other(ev.peer)][Len(delivered[ev.peer])]
        /\ Quiet => AllDelivered

C3_InOrder ==
    Len(sent["A"]) <= SEQ_MASK + 1 => IsPrefix(delivered["B"], sent["A"])

\* 64 packets written, the second lost: the first is all that was delivered,
\* and the last has just been turned down
C3_Witness ==
    /\ Len(sent["A"]) = SEQ_MASK + 1
    /\ lost = 1
    /\ delivered["B"] = <<sent["A"][1]>>
    /\ Received("B", "USR") /\ ev.pkt.seq = SEQ_MASK /\ ev.res.kind = "MoreDataNeeded"

\* C3 as the claim states it: for any number of packets written
C3_Original == IsPrefix(delivered["B"], sent["A"])

\* the transmitter of the engine after the last call, and the call a USR or
\* RTX frame
Engine == tx[ev.peer]
ReceivedUser == ev.op = "parse_byte" /\ ev.pkt.type \in {"USR", "RTX"}
SeqsUnchanged == Engine.rx_seq = ev.pre.rx_seq /\ Engine.tx_seq = ev.pre.tx_seq

\* what connect() does to the transmitter and the writer
ConnectEffect ==
    /\ Engine = [connect_state |-> "SentSyn0", rx_seq |-> 0, tx_seq |-> 0]
    /\ ev.out = <<transmit_syn0>>
    /\ transmit_syn0 = <<SOF, 192, 116, 54, SOF>>

C5_Syn0 ==
    Received(ev.peer, "Syn0") =>
        /\ Engine = [connect_state |-> "SentSyn1", rx_seq |-> 0, tx_seq |-> 0]
        /\ ev.out = <<transmit_syn1>>
        /\ transmit_syn1 = <<SOF, 193, 253, 39, SOF>>

\* Syn0 arrives at a Connected engine whose sequence numbers have advanced
C5_Witness ==
    /\ Received(ev.peer, "Syn0")
    /\ ev.pre.connect_state = "Connected" /\ ev.pre.tx_seq > 0 /\ ev.pre.rx_seq > 0
    /\ Engine.connect_state = "SentSyn1"

\* C6: a Syn1 packet received in Disconnected makes the engine emit exactly
\* one DIS frame and stay Disconnected; received in SentSyn0, SentSyn1 or
\* Connected it makes the engine emit exactly one SYN2 frame and be Connected;
\* rx_seq and tx_seq are unchanged in both cases.
C6_Syn1 ==
    Received(ev.peer, "Syn1") =>
        /\ SeqsUnchanged
        /\ IF ev.pre.connect_state = "Disconnected"
           THEN Engine.connect_state = "Disconnected" /\ ev.out = <<transmit_dis>>
           ELSE Engine.connect_state = "Connected" /\ ev.out = <<transmit_syn2>>
        /\ transmit_dis = <<SOF, 195, 239, 4, SOF>>
        /\ transmit_syn2 = <<SOF, 194, 102, 21, SOF>>

\* Syn1 arrives at a Connected engine that has already sent packets
C6_Witness ==
    /\ Received(ev.peer, "Syn1")
    /\ ev.pre.connect_state = "Connected" /\ ev.pre.tx_seq > 0
    /\ ev.out = <<transmit_syn2>>

\* C7: a Syn2 packet received in Disconnected makes the engine emit one DIS
\* frame and stay Disconnected; in SentSyn0 it makes the engine emit one SYN0
\* frame and stay SentSyn0; in SentSyn1 or Connected the engine is Connected
\* afterwards and emits nothing.
C7_Syn2 ==
    Received(ev.peer, "Syn2") =>
        IF ev.pre.connect_state = "Disconnected"
        THEN Engine.connect_state = "Disconnected" /\ ev.out = <<transmit_dis>>
        ELSE IF ev.pre.connect_state = "SentSyn0"
        THEN Engine.connect_state = "SentSyn0" /\ ev.out = <<transmit_syn0>>
        ELSE Engine.connect_state = "Connected" /\ ev.out = <<>>

\* Syn2 arrives at an engine still waiting in SentSyn0
C7_Witness ==
    /\ Received(ev.peer, "Syn2")
    /\ ev.pre.connect_state = "SentSyn0"
    /\ ev.out = <<transmit_syn0>>

\* C8: a Disconnect packet received in any connection state moves the engine
\* to Disconnected, emits nothing and returns MoreDataNeeded; is_connected()
\* is false afterwards.
C8_Disconnect ==
    Received(ev.peer, "Disconnect") =>
        /\ Engine.connect_state = "Disconnected"
        /\ ~is_connected(Engine)
        /\ ev.out = <<>>
        /\ ev.res = Result("MoreDataNeeded")

\* Disconnect arrives at a Connected engine
C8_Witness ==
    /\ Received(ev.peer, "Disconnect")
    /\ ev.pre.connect_state = "Connected"
    /\ ~is_connected(Engine)

\* C9: a User or Retransmit frame received while not Connected is not
\* delivered: the result is MoreDataNeeded, rx_seq and the connection state
\* are unchanged, and exactly one frame is emitted: DIS in Disconnected, SYN0
\* in SentSyn0, SYN1 in SentSyn1.
C9_NotConnected ==
    (ReceivedUser /\ ev.pre.connect_state # "Connected") =>
        /\ ev.res = Result("MoreDataNeeded")
        /\ Engine.rx_seq = ev.pre.rx_seq
        /\ Engine.connect_state = ev.pre.connect_state
        /\ ev.out = <<CASE ev.pre.connect_state = "Disconnected" -> transmit_dis
                        [] ev.pre.connect_state = "SentSyn0" -> transmit_syn0
                        [] ev.pre.connect_state = "SentSyn1" -> transmit_syn1>>

\* an in-sequence User frame arrives at an engine in SentSyn1
C9_Witness ==
    /\ Received(ev.peer, "USR")
    /\ ev.pre.connect_state = "SentSyn1"
    /\ ev.pkt.seq = ev.pre.rx_seq
    /\ ev.out = <<transmit_syn1>>

\* C10: in Connected, a User or Retransmit frame whose seq equals rx_seq is
\* accepted: rx_seq becomes (rx_seq + 1) mod 64, the result is UserPacket,
\* nothing is emitted, and tx_seq and the connection state are unchanged.
C10_Accept ==
    (ReceivedUser /\ ev.pre.connect_state = "Connected" /\ ev.pkt.seq = ev.pre.rx_seq) =>
        /\ Engine.rx_seq = (ev.pre.rx_seq + 1) % 64
        /\ ev.res = Result("UserPacket")
        /\ ev.out = <<>>
        /\ Engine.tx_seq = ev.pre.tx_seq
        /\ Engine.connect_state = "Connected"

\* the frame with sequence number 63 is accepted and rx_seq wraps to 0
C10_Witness ==
    /\ ReceivedUser
    /\ ev.pre.connect_state = "Connected" /\ ev.pre.rx_seq = 63 /\ ev.pkt.seq = 63
    /\ Engine.rx_seq = 0
    /\ ev.res = Result("UserPacket")

\* a User or Retransmit frame out of sequence has reached a Connected engine
OutOfSequence(type) ==
    /\ Received(ev.peer, type)
    /\ ev.pre.connect_state = "Connected"
    /\ ev.pkt.seq # ev.pre.rx_seq

\* C11: in Connected, a USR frame whose seq differs from rx_seq is not
\* delivered: the result is MoreDataNeeded, rx_seq is unchanged, and exactly
\* one frame is emitted, a NAK whose header is 0x80 | rx_seq.
C11_Nak ==
    OutOfSequence("USR") =>
        /\ ev.res = Result("MoreDataNeeded")
        /\ Engine.rx_seq = ev.pre.rx_seq
        /\ ev.out = <<write_packet_data(128 + ev.pre.rx_seq, <<>>)>>
        /\ HeaderOf(ev.out[1]) = 128 + ev.pre.rx_seq

\* the USR frame received carries rx_seq + 1 and the NAK carries rx_seq
C11_Witness ==
    /\ OutOfSequence("USR")
    /\ ev.pre.rx_seq = 1 /\ ev.pkt.seq = 2
    /\ HeaderOf(ev.out[1]) = 129

\* C12: in Connected, an RTX frame whose seq differs from rx_seq is
\* ignored: nothing is emitted, rx_seq, tx_seq and the connection state are
\* unchanged, and the result is MoreDataNeeded.
C12_Ignore ==
    OutOfSequence("RTX") =>
        /\ ev.out = <<>>
        /\ Engine = ev.pre
        /\ ev.res = Result("MoreDataNeeded")

\* an RTX frame ahead of rx_seq reaches an engine that has sent and received
C12_Witness ==
    /\ OutOfSequence("RTX")
    /\ ev.pre.rx_seq = 1 /\ ev.pkt.seq = 2 /\ ev.pre.tx_seq = 1
    /\ ev.out = <<>>

\* C14: write_packet called in Disconnected, SentSyn0 or SentSyn1 has no
\* effect: tx_seq, rx_seq and the connection state are unchanged and nothing
\* is written to the writer.
C14_Rejected ==
    (ev.op = "write_packet" /\ ev.pre.connect_state # "Connected") =>
        /\ Engine = ev.pre
        /\ ev.out = <<>>

\* write_packet is called on an engine in SentSyn1
C14_Witness ==
    /\ ev.op = "write_packet"
    /\ ev.pre.connect_state = "SentSyn1"
    /\ Engine.connect_state = "SentSyn1"
    /\ ev.out = <<>>

\* C16: a Connected engine that receives Nak{seq} for a packet it has sent
\* (seq below its tx_seq) retransmits: it writes at least one frame, the
\* first of them the user packet with sequence number seq.
C16_Recovery ==
    (Received(ev.peer, "NAK") /\ ev.pre.connect_state = "Connected"
       /\ ev.pkt.seq < ev.pre.tx_seq) =>
        /\ ev.out # <<>>
        /\ BitAnd(HeaderOf(ev.out[1]), SEQ_MASK) = ev.pkt.seq

\* C17: an engine that is Connected after receiving Syn1 or Syn2 while its
\* tx_seq is not 0 re-emits the user packets it has sent, after the SYN2 if
\* it emits one: more than the SYN2 alone on Syn1, at least one frame on Syn2.
C17_Replay ==
    (ev.op = "parse_byte" /\ ev.pkt.type \in {"Syn1", "Syn2"}
       /\ is_connected(Engine) /\ ev.pre.tx_seq # 0) =>
        Len(ev.out) > (IF ev.pkt.type = "Syn1" THEN 1 ELSE 0)

\* C18: whenever parse_byte returns AbortedPacket, PacketTooSmall or
\* CrcError, the connection state, rx_seq and tx_seq are what they were
\* before the call and nothing has been written to the writer.
C18_Local ==
    (ev.op = "parse_byte" /\ ev.res.kind \in {"AbortedPacket", "PacketTooSmall", "CrcError"}) =>
        /\ Engine = ev.pre
        /\ ev.out = <<>>

\* the closing SOF of 7E 00 00 00 7E returns CrcError(0x0000) to a Connected
\* engine
C18_Witness ==
    /\ ev.op = "parse_byte"
    /\ ev.res = CrcError(0)
    /\ rx[ev.peer].header = 0
    /\ ev.pre.connect_state = "Connected" /\ Engine = ev.pre

\* the payload of the last accepted write_packet call of peer p
LastSent(p) == sent[p][Len(sent[p])]

\* C13: write_packet(P) called in Connected emits exactly one frame, with
\* header USR | tx_seq (the tx_seq before the call) and payload P, and then
\* sets tx_seq to (tx_seq + 1) mod 64, from 63 back to 0; rx_seq and the
\* connection state are unchanged.
C13_Write ==
    (ev.op = "write_packet" /\ ev.pre.connect_state = "Connected") =>
        /\ sent[ev.peer] # <<>>
        /\ ev.out = <<write_packet_data(BitOr(USR, ev.pre.tx_seq), LastSent(ev.peer))>>
        /\ HeaderOf(ev.out[1]) = ev.pre.tx_seq
        /\ Engine.tx_seq = (ev.pre.tx_seq + 1) % 64
        /\ Engine.rx_seq = ev.pre.rx_seq
        /\ Engine.connect_state = "Connected"

\* the 64th packet of a session is written with tx_seq = 63, which wraps to 0
C13_Witness ==
    /\ ev.op = "write_packet"
    /\ ev.pre.connect_state = "Connected"
    /\ ev.pre.tx_seq = 63 /\ Engine.tx_seq = 0
    /\ LastSent(ev.peer) = <<63>>
    /\ HeaderOf(ev.out[1]) = 63

\* C15: every user packet sent in Connected is recorded in the transmit
\* history: right after write_packet(P), get(0) of the history holds P.
C15_History ==
    (ev.op = "write_packet" /\ ev.pre.connect_state = "Connected") =>
        queue_get(tx_queue[ev.peer], 0) = [some |-> TRUE, buf |-> LastSent(ev.peer)]

\* the byte parse_u8 took last was the closing SOF of the frame fed
FrameFed == ev.op = "parse_u8" /\ wire["A"] = <<>>

\* C19: for every header 0..255 and every payload of at most capacity - 2
\* bytes (SOF and ESC among them), feeding write_packet_data(header, P) to a
\* parser in the New state returns MoreDataNeeded for every byte but the
\* last and RawPacketReceived(header) for the closing SOF, with the receive
\* buffer equal to P.
C19_RoundTrip ==
    ev.op = "parse_u8" =>
        IF wire["A"] = <<>>
        THEN /\ ev.res = RawPacketReceived(log["A"][1])
             /\ rx_data["A"] = sent["A"][1]
        ELSE ev.res = Result("MoreDataNeeded")

\* header SOF and payload ESC, both escaped on the wire, have come through
C19_Witness ==
    /\ FrameFed
    /\ log["A"] = <<SOF>> /\ sent["A"] = << <<ESC>> >>
    /\ ev.res = RawPacketReceived(SOF) /\ rx_data["A"] = <<ESC>>
    /\ Len(results) = 8
    /\ \A i \in 1 .. 7 : results[i] = Result("MoreDataNeeded")

\* C20: after any byte stream, a well-formed frame SOF header payload crc
\* SOF with a payload of at most capacity - 2 bytes makes its closing SOF
\* return RawPacketReceived(header) with the receive buffer equal to the
\* payload.
C20_Resync ==
    FrameFed =>
        /\ results[Len(results)] = RawPacketReceived(log["A"][1])
        /\ rx_data["A"] = sent["A"][1]

\* the stream before the frame ended in ESC: the frame's opening SOF returned
\* AbortedPacket and the frame was received all the same
C20_Witness ==
    /\ FrameFed
    /\ results[1] = Result("AbortedPacket")
    /\ log["A"] = <<192>> /\ sent["A"] = << <<SOF>> >>
    /\ ev.res = RawPacketReceived(192) /\ rx_data["A"] = <<SOF>>

\* C21: no byte of a frame that overflows the receive buffer is reported as
\* a packet: parse_u8 returns RawPacketReceived for none of the bytes of a
\* frame with more than Capacity bytes after its header, its closing SOF
\* included.
C21_Discard ==
    (ev.op = "parse_u8" /\ sent["A"] # <<>> /\ Len(sent["A"][1]) > Capacity) =>
        ev.res.kind # "RawPacketReceived"

\* the last call was parse_u8, on the byte given
Parsed(byte) == ev.op \in {"parse_u8", "prefix"} /\ ev.pre.byte = byte

\* C22: a SOF that immediately follows ESC is an abort, in either frame
\* state: it returns AbortedPacket (not RawPacketReceived, PacketTooSmall or
\* CrcError) and leaves the parser in New/Normal with the receive buffer
\* empty and the CRC accumulator at 0xFFFF.
C22_Abort ==
    (Parsed(SOF) /\ ev.pre.ps.escape_state = "Escaping") =>
        /\ ev.res = Result("AbortedPacket")
        /\ rx["A"].frame_state = "New" /\ rx["A"].escape_state = "Normal"
        /\ rx_data["A"] = <<>>
        /\ rx["A"].crc = CRC_INIT

\* ESC SOF arrives in Collecting with two bytes in the buffer, where a plain
\* SOF would have closed the frame
C22_Witness ==
    /\ Parsed(SOF) /\ ev.pre.ps.escape_state = "Escaping"
    /\ ev.pre.ps.frame_state = "Collecting" /\ Len(ev.pre.buf) = 2
    /\ ev.res = Result("AbortedPacket") /\ rx_data["A"] = <<>>

\* C23: a SOF handed to a parser in New/Normal returns MoreDataNeeded and
\* leaves the parser state, header, CRC accumulator and receive buffer as
\* they were, however many SOFs came before it.
C23_IdleSof ==
    (Parsed(SOF) /\ ev.pre.ps.frame_state = "New" /\ ev.pre.ps.escape_state = "Normal") =>
        /\ ev.res = Result("MoreDataNeeded")
        /\ rx["A"] = ev.pre.ps
        /\ rx_data["A"] = ev.pre.buf

\* a SOF in New after a frame was received: the header, CRC and payload of
\* that frame are still there
C23_Witness ==
    /\ Parsed(SOF) /\ ev.op = "prefix"
    /\ ev.pre.ps.frame_state = "New" /\ ev.pre.ps.escape_state = "Normal"
    /\ ev.pre.ps.header = 192 /\ ev.pre.ps.crc = CRC_GOOD /\ ev.pre.buf = <<SOF>>
    /\ rx["A"] = ev.pre.ps /\ rx_data["A"] = <<SOF>>

\* the header and the bytes after it of the frame that was fed
FedHeader == log["A"][1]
FedData == sent["A"][1]

\* C24: a frame closed by SOF with fewer than 2 bytes after its header
\* returns PacketTooSmall (not CrcError, not RawPacketReceived) and leaves
\* the parser in New.
C24_TooSmall ==
    (FrameFed /\ Len(FedData) < 2) =>
        /\ ev.res = Result("PacketTooSmall")
        /\ rx["A"].frame_state = "New"

\* 7E 00 00 7E has been fed: one byte after the header
C24_Witness ==
    /\ FrameFed
    /\ FedHeader = 0 /\ FedData = <<0>>
    /\ ev.pre.ps.frame_state = "Collecting"
    /\ ev.res = Result("PacketTooSmall")

\* what C25 says of the closing SOF of the frame fed: RawPacketReceived if
\* the CRC over header and data is CRC_GOOD, else CrcError of the last two
\* bytes, the last one the high byte; the two bytes are gone from the buffer
CrcVerdict ==
    LET n == Len(FedData)
    IN  /\ ev.res = IF accum_bytes(CRC_INIT, <<FedHeader>> \o FedData) = CRC_GOOD
                    THEN RawPacketReceived(FedHeader)
                    ELSE CrcError(FedData[n] * 256 + FedData[n - 1])
        /\ rx_data["A"] = SubSeq(FedData, 1, n - 2)

\* C25 (as amended): a frame closed by SOF with at least 2 and at most
\* Capacity bytes after its header is reported as RawPacketReceived(header)
\* if and only if the CRC over header, payload and the two CRC bytes is
\* 0xF0B8, and as CrcError((last << 8) | second-to-last) otherwise; in both
\* cases the two CRC bytes have been removed from the receive buffer.
C25_Crc ==
    (FrameFed /\ Len(FedData) >= 2 /\ Len(FedData) <= Capacity) => CrcVerdict

\* 7E 00 00 crc 7E has come through as RawPacketReceived(0) with payload 00
C25_Witness ==
    /\ FrameFed
    /\ Len(FedData) = 3 /\ FedData[1] = 0
    /\ ev.res = RawPacketReceived(0) /\ rx_data["A"] = <<0>>
    /\ CrcVerdict

\* C25 (as stated): the same of every frame closed by SOF with at least 2
\* bytes after its header, however many.
C25_Original ==
    (FrameFed /\ Len(FedData) >= 2) => CrcVerdict

\* the frame fed came without a SOF of its own, after the closing SOF of
\* what was before it
SharedSof == Len(results) = Len(write_packet_data(FedHeader, FedData)) - 1

\* C26: a frame sent right after a closing SOF without a leading SOF of its
\* own (header, payload, crc, SOF) is parsed as a frame: its first byte is
\* taken as the header, every byte but the last returns MoreDataNeeded, and
\* its closing SOF returns RawPacketReceived(header) with the receive
\* buffer equal to the payload, whatever the SOF before it returned.
C26_SharedSof ==
    (FrameFed /\ SharedSof) =>
        /\ ev.res = RawPacketReceived(FedHeader)
        /\ rx_data["A"] = FedData
        /\ \A i \in 1 .. Len(results) - 1 : results[i] = Result("MoreDataNeeded")

\* a frame with header ESC and payload SOF has come through after another
\* frame, sharing that frame's closing SOF
C26_Witness ==
    /\ FrameFed /\ SharedSof
    /\ FedHeader = ESC /\ FedData = <<SOF>>
    /\ ev.res = RawPacketReceived(ESC) /\ rx_data["A"] = <<SOF>>

\* the frame the writer has written
Written == wire["B"][1]

\* C27: the byte stream write_packet_data writes has SOF as its first and
\* its last byte and nowhere else, and every ESC in it is immediately
\* followed by 0x5D or 0x5E; for header, payload and both CRC bytes.
C27_Neutral ==
    wire["B"] # <<>> =>
        /\ Written[1] = SOF
        /\ Written[Len(Written)] = SOF
        /\ \A i \in 2 .. Len(Written) - 1 :
            /\ Written[i] # SOF
            /\ Written[i] = ESC => Written[i + 1] \in {93, 94}

\* a frame whose payload and high CRC byte are both written escaped
C27_Witness ==
    /\ wire["B"] # <<>>
    /\ Len(FedData) = 2 /\ FedData[1] \in {ESC, SOF}
    /\ Written[3] = ESC
    /\ Written[Len(Written) - 2] = ESC
    /\ Written[Len(Written) - 1] \in {93, 94}

\* a byte sequence with SOF and ESC replaced by ESC, byte XOR ESC_FLIP
RECURSIVE Escaped(_)
Escaped(bytes) ==
    IF bytes = <<>> THEN <<>>
    ELSE (IF Head(bytes) \in {SOF, ESC}
          THEN <<ESC, BitXor(Head(bytes), ESC_FLIP)>>
          ELSE <<Head(bytes)>>) \o Escaped(Tail(bytes))

\* the complement of an accumulator, low byte first
Complement(val) == <<(65535 - val) % 256, (65535 - val) \div 256>>

\* the frame C29 describes for a header and a payload
Encoding(header, data) ==
    <<SOF>>
        \o Escaped(<<header>> \o data
                       \o Complement(accum_bytes(CRC_INIT, <<header>> \o data)))
        \o <<SOF>>

\* C29: write_packet_data(header, P) writes SOF, the escaped header, the
\* escaped payload bytes in order, the escaped CRC low byte then high byte,
\* SOF, the CRC being the complement of the accumulator over header and
\* payload from 0xFFFF; SYN0 is 7E C0 74 36 7E, SYN1 7E C1 FD 27 7E, SYN2
\* 7E C2 66 15 7E, and USR seq 0 with payload "Testing" is
\* 7E 00 54 65 73 74 69 6E 67 C5 5C 7E.
C29_Encoding ==
    wire["B"] # <<>> =>
        /\ Written = Encoding(FedHeader, FedData)
        /\ (FedHeader = 192 /\ FedData = <<>>) => Written = <<126, 192, 116, 54, 126>>
        /\ (FedHeader = 193 /\ FedData = <<>>) => Written = <<126, 193, 253, 39, 126>>
        /\ (FedHeader = 194 /\ FedData = <<>>) => Written = <<126, 194, 102, 21, 126>>
        /\ (FedHeader = 0 /\ FedData = Testing) =>
              Written = <<126, 0, 84, 101, 115, 116, 105, 110, 103, 197, 92, 126>>

\* USR seq 0 with payload "Testing" has been written
C29_Witness ==
    /\ wire["B"] # <<>>
    /\ FedHeader = 0 /\ FedData = Testing
    /\ Written = <<126, 0, 84, 101, 115, 116, 105, 110, 103, 197, 92, 126>>

\* C28: for every byte sequence bs, accum_bytes(bs) from the reset value
\* 0xFFFF followed by accum_crc() leaves the accumulator at CRC_GOOD =
\* 0xF0B8.
C28_Identity ==
    ev.op = "accum_crc" =>
        /\ ev.pre.ps.crc = accum_bytes(CRC_INIT, log["A"])
        /\ rx["A"].crc = CRC_GOOD
        /\ accum_crc(accum_bytes(CRC_INIT, log["A"])) = CRC_GOOD

\* accum_crc() after the two bytes 7E FF
C28_Witness ==
    /\ ev.op = "accum_crc"
    /\ log["A"] = <<SOF, 255>>
    /\ ev.pre.ps.crc # CRC_INIT
    /\ rx["A"].crc = CRC_GOOD

\* the packets stored since construction or the last clear(), oldest first
Stored == sent["A"]
Min(a, b) == IF a < b THEN a ELSE b

\* C30: after k calls of next() since construction or the last clear(),
\* get(offset) is the slot handed out by the (k - offset)-th of them for
\* every offset < min(k, capacity) and None for every other offset; with
\* more than capacity packets the oldest are the ones overwritten, and
\* right after clear() get(0) is None.
C30_Ordering ==
    ev.op \in {"next", "clear"} =>
        \A offset \in 0 .. QUEUE_SIZE + 1 :
            queue_get(tx_queue["A"], offset) =
                IF offset < Min(Len(Stored), QUEUE_SIZE)
                THEN [some |-> TRUE, buf |-> Stored[Len(Stored) - offset]]
                ELSE [some |-> FALSE, buf |-> <<>>]

\* one packet, a clear(), then nine more: the ring has wrapped, the eight
\* newest are there and the ninth is not
C30_Witness ==
    /\ ev.op = "next"
    /\ calls = 10 /\ Len(Stored) = 9
    /\ queue_get(tx_queue["A"], 0).buf = <<10>>
    /\ queue_get(tx_queue["A"], 7).buf = <<3>>
    /\ ~queue_get(tx_queue["A"], 8).some

\* the buffer a remove_crc call found and its length
Pulled == ev.pre.buf
PulledLen == Len(ev.pre.buf)

\* C31: remove_crc is an LSB-first pull of the last two bytes in every
\* receive-buffer implementation: with len >= 2 it returns
\* (data[len-1] << 8) | data[len-2] and shortens the buffer by exactly 2,
\* with len < 2 it returns 0 and leaves the buffer unchanged.
C31_RemoveCrc ==
    ev.op = "remove_crc" =>
        IF PulledLen >= 2
        THEN /\ ev.res.val = Pulled[PulledLen] * 256 + Pulled[PulledLen - 1]
             /\ rx_data["A"] = SubSeq(Pulled, 1, PulledLen - 2)
        ELSE /\ ev.res.val = 0
             /\ rx_data["A"] = Pulled

\* parse_byte has taken the closing SOF of a frame and the raw parser has
\* validated it (its other results at a SOF, AbortedPacket, PacketTooSmall
\* and CrcError, are handed back as they are); the header of that frame is
\* the parser's, split as the claim splits it
Closed ==
    /\ ev.op = "parse_byte"
    /\ ev.pre.byte = SOF
    /\ ev.res.kind \in {"PacketReceived", "MoreDataNeeded"}
ClosedType == (rx["A"].header \div 64) * 64
ClosedLow == rx["A"].header % 64

\* the call yielded no packet, wrote nothing and left the engine as it found it
Ignored ==
    /\ ev.pkt.type = "None"
    /\ ev.res.kind = "MoreDataNeeded"
    /\ ev.out = <<>>
    /\ tx["A"].connect_state = ev.pre.connect_state
    /\ tx["A"].rx_seq = ev.pre.rx_seq
    /\ tx["A"].tx_seq = ev.pre.tx_seq

\* C32: for a validated header h with type = h & 0xC0 and low = h & 0x3F,
\* type 0x00/0x40/0x80 yields User/Retransmit/Nak with seq = low, type 0xC0
\* yields Syn0/Syn1/Syn2/Disconnect for low = 0/1/2/3, and a SYN header with
\* low in 4..63 yields no packet: parse_byte returns MoreDataNeeded, emits
\* nothing, and the connection state and sequence numbers are unchanged.
C32_Classify ==
    Closed =>
        /\ ClosedType = 0 => ev.pkt = [type |-> "USR", seq |-> ClosedLow]
        /\ ClosedType = 64 => ev.pkt = [type |-> "RTX", seq |-> ClosedLow]
        /\ ClosedType = 128 => ev.pkt = [type |-> "NAK", seq |-> ClosedLow]
        /\ ClosedType = 192 /\ ClosedLow = 0 => ev.pkt.type = "Syn0"
        /\ ClosedType = 192 /\ ClosedLow = 1 => ev.pkt.type = "Syn1"
        /\ ClosedType = 192 /\ ClosedLow = 2 => ev.pkt.type = "Syn2"
        /\ ClosedType = 192 /\ ClosedLow = 3 => ev.pkt.type = "Disconnect"
        /\ ClosedType = 192 /\ ClosedLow \in 4 .. 63 => Ignored

\* a Connected engine that has written a packet takes the frame of header 0xFF
C32_Witness ==
    /\ Closed
    /\ rx["A"].header = 255
    /\ Ignored
    /\ ev.pre.connect_state = "Connected"
    /\ ev.pre.tx_seq = 1

\* write_packet has written a frame
Wrote == ev.op = "write_packet" /\ ev.out # <<>>

\* C33: after any sequence of connect(), write_packet() and received packets
\* of any kind, rx_seq and tx_seq are within 0..=63, so the header
\* USR | tx_seq written by write_packet has its top two bits equal to 00.
C33_Range ==
    /\ tx["A"].rx_seq \in 0 .. 63
    /\ tx["A"].tx_seq \in 0 .. 63
    /\ Wrote => HeaderOf(ev.out[1]) \div 64 = 0

\* the packet written with tx_seq = 63 by an engine whose rx_seq is 63
C33_Witness ==
    /\ Wrote
    /\ HeaderOf(ev.out[1]) = 63
    /\ tx["A"].tx_seq = 0
    /\ tx["A"].rx_seq = 63

\* C34: Disconnected is closed under everything except connect() and Syn0:
\* an engine in Disconnected that receives Syn1, Syn2, Disconnect, User,
\* Retransmit or Nak packets or framing errors, or on which write_packet is
\* called, stays Disconnected with rx_seq and tx_seq unchanged; so an engine
\* leaves Disconnected only by a call of connect() or on receiving Syn0.
C34_Closed ==
    (ev.op # "new" /\ ev.pre.connect_state = "Disconnected") =>
        \/ ev.op = "connect"
        \/ ev.op = "parse_byte" /\ ev.pkt.type = "Syn0"
        \/ Engine = ev.pre

\* an engine disconnected by its peer after it wrote a packet answers a SYN2
\* with DIS and stays as it is, tx_seq = 1 included
C34_Witness ==
    /\ Received("A", "Syn2")
    /\ ev.pre.connect_state = "Disconnected"
    /\ ev.pre.tx_seq = 1
    /\ Engine = ev.pre
    /\ ev.out = <<transmit_dis>>

\* each peer's tx_seq equals the other peer's rx_seq
SeqsAgree == \A p \in Peers : tx[p].tx_seq = tx[Other(p)].rx_seq

SimultaneousOpen ==
    \A p \in Peers :
        /\ connects[p] = 1
        /\ tx[p].connect_state = "SentSyn0"
        /\ wire[p] = <<transmit_syn0>>

\* both Connected at sequence 0 with nothing in flight, each peer having
\* written SYN0, SYN1 and SYN2 and nothing else
Opened ==
    /\ BothConnected(tx) /\ Quiet
    /\ \A p \in Peers : tx[p].rx_seq = 0 /\ tx[p].tx_seq = 0
    /\ \A p \in Peers : log[p] = <<192, 193, 194>>

\* C36: simultaneous open.  If both peers call connect() before receiving
\* anything from each other, then on lossless FIFO channels with fair
\* delivery both peers eventually are Connected with rx_seq = tx_seq = 0 and
\* the exchange of control frames ends: from some moment on nothing is in
\* flight any more.
C36_SimultaneousOpen == [](SimultaneousOpen => <>[]Opened)

\* the simultaneous open has run to its end
C36_Witness ==
    /\ Opened
    /\ connects = [p \in Peers |-> 1]
    /\ Received(ev.peer, "Syn2") /\ ev.out = <<>>

\* C37: the 8-slot test queue is a bounded ring: after k calls to next()
\* since construction or the last clear(), len() equals min(k, 8) and never
\* exceeds capacity(), so get(offset) returns Some only for slots handed out
\* by next() since the last clear().
C37_Bounded ==
    /\ tx_queue["A"].len = Min(Len(Stored), QUEUE_SIZE)
    /\ tx_queue["A"].len <= QUEUE_SIZE
    /\ ev.op = "get" =>
          /\ ev.res.kind # "Panic"
          /\ ev.res.kind = "Some" =>
                /\ ev.res.val < Len(Stored)
                /\ ev.out = Stored[Len(Stored) - ev.res.val]

\* the bytes fed so far end in ESC SOF, and the parser was Collecting when it
\* was handed the ESC
Fed == log["A"]
EscSofFed ==
    /\ ev.op = "parse_u8"
    /\ Len(Fed) >= 3
    /\ Fed[Len(Fed) - 1] = ESC /\ Fed[Len(Fed)] = SOF
    /\ Fed[Len(Fed) - 2] \notin {ESC, SOF}

\* C38: the parser of packet.rs treats ESC SOF as an abort sequence: feeding
\* ESC and then SOF to parse_u8 while Collecting returns AbortedPacket for
\* the SOF (not RawPacketReceived), and an ESC byte is never stored as
\* payload (no byte of the streams fed is escaped to 0x7D).
C38_Abort ==
    /\ EscSofFed => ev.res = Result("AbortedPacket")
    /\ \A i \in 1 .. Len(rx_data["A"]) : rx_data["A"][i] # ESC

====
